---- MODULE Spec2Model ----
(***************************************************************************)
(* Transcript-to-update pipeline of mcp_rally: the transcript parser       *)
(* (transcript.py), the update applier (rally_client.py) and the two       *)
(* endpoints that drive it (api/transcript.py).                            *)
(*                                                                         *)
(* Text is modelled as TLA+ strings and handled character by character.    *)
(* Optional[T] is modelled as a sequence: <<>> is None, <<v>> is the       *)
(* value v.                                                                *)
(***************************************************************************)
EXTENDS Integers, Sequences, FiniteSets, TLC

\* ------------------------------------------------------------------------
\* Optional values and Python truthiness
\* ------------------------------------------------------------------------
None == <<>>

Some(v) == <<v>>

Val(o) == o[1]

\* bool(s) for s: Optional[str]  (None and "" are falsy)
Truthy(o) == o # <<>> /\ o[1] # ""

\* ------------------------------------------------------------------------
\* Characters and strings
\* ------------------------------------------------------------------------
Ch(s, i) == SubSeq(s, i, i)

UpperChars == {"A", "B", "C", "D", "E", "F", "G", "H", "I", "J", "K", "L", "M",
               "N", "O", "P", "Q", "R", "S", "T", "U", "V", "W", "X", "Y", "Z"}

LowerChars == {"a", "b", "c", "d", "e", "f", "g", "h", "i", "j", "k", "l", "m",
               "n", "o", "p", "q", "r", "s", "t", "u", "v", "w", "x", "y", "z"}

DigitChars == {"0", "1", "2", "3", "4", "5", "6", "7", "8", "9"}

\* \w of the re module
WordChars == UpperChars \cup LowerChars \cup DigitChars \cup {"_"}

\* \s of the re module, and the characters str.strip() removes
SpaceChars == {" ", "\t", "\n", "\r", "\f"}

\* str.lower() on one character
LowerChar(c) ==
  CASE c = "A" -> "a" [] c = "B" -> "b" [] c = "C" -> "c" [] c = "D" -> "d"
    [] c = "E" -> "e" [] c = "F" -> "f" [] c = "G" -> "g" [] c = "H" -> "h"
    [] c = "I" -> "i" [] c = "J" -> "j" [] c = "K" -> "k" [] c = "L" -> "l"
    [] c = "M" -> "m" [] c = "N" -> "n" [] c = "O" -> "o" [] c = "P" -> "p"
    [] c = "Q" -> "q" [] c = "R" -> "r" [] c = "S" -> "s" [] c = "T" -> "t"
    [] c = "U" -> "u" [] c = "V" -> "v" [] c = "W" -> "w" [] c = "X" -> "x"
    [] c = "Y" -> "y" [] c = "Z" -> "z" [] OTHER -> c

RECURSIVE LowerFrom(_, _)
LowerFrom(s, i) ==
  IF i > Len(s) THEN "" ELSE LowerChar(Ch(s, i)) \o LowerFrom(s, i + 1)

\* str.lower()
Lower(s) == LowerFrom(s, 1)

\* str.strip()
Strip(s) ==
  LET keep == {i \in 1..Len(s) : Ch(s, i) \notin SpaceChars}
  IN  IF keep = {} THEN ""
      ELSE LET lo == CHOOSE i \in keep : \A j \in keep : i <= j
               hi == CHOOSE i \in keep : \A j \in keep : j <= i
           IN  SubSeq(s, lo, hi)

\* s[i:].startswith(k), i is 1-based
StartsAt(s, i, k) == i + Len(k) - 1 <= Len(s) /\ SubSeq(s, i, i + Len(k) - 1) = k

\* k in s
Contains(s, k) == \E i \in 1..(Len(s) + 1) : StartsAt(s, i, k)

\* \b between position i-1 and position i of s
WordBoundary(s, i) ==
  LET before == i > 1 /\ Ch(s, i - 1) \in WordChars
      after  == i <= Len(s) /\ Ch(s, i) \in WordChars
  IN  before # after

\* length of the run of whitespace starting at position i
RECURSIVE SpaceRun(_, _)
SpaceRun(s, i) ==
  IF i <= Len(s) /\ Ch(s, i) \in SpaceChars THEN 1 + SpaceRun(s, i + 1) ELSE 0

\* re.split(r"[.\n]", s): the pieces between separators, empty ones included
RECURSIVE SplitFrom(_, _, _)
SplitFrom(s, start, i) ==
  IF i > Len(s) THEN <<SubSeq(s, start, Len(s))>>
  ELSE IF Ch(s, i) \in {".", "\n"}
       THEN <<SubSeq(s, start, i - 1)>> \o SplitFrom(s, i + 1, i + 1)
       ELSE SplitFrom(s, start, i + 1)

SplitSnippets(s) == SplitFrom(s, 1, 1)

\* ------------------------------------------------------------------------
\* transcript.py
\* ------------------------------------------------------------------------

\* length of the run of uppercase letters starting at position i
RECURSIVE UpperRun(_, _)
UpperRun(s, i) ==
  IF i <= Len(s) /\ Ch(s, i) \in UpperChars THEN 1 + UpperRun(s, i + 1) ELSE 0

\* length of the run of digits starting at position i
RECURSIVE DigitRun(_, _)
DigitRun(s, i) ==
  IF i <= Len(s) /\ Ch(s, i) \in DigitChars THEN 1 + DigitRun(s, i + 1) ELSE 0

\* IdEndAfter for the pattern \b([A-Z]{1,5}\d+)\b
IdEndAfter_OneDigit(s, i, k, m) ==
  IF k >= 1 /\ k <= 5 /\ m >= 1 /\ WordBoundary(s, i + k + m) THEN i + k + m - 1 ELSE 0

\* the end of the match of [A-Z]{1,5}\d{2,}\b at position i, where k letters
\* and then m digits follow: both quantifiers are greedy, and giving back a
\* letter or a digit never helps, as the next pattern item or the final \b
\* then fails on the character given back
IdEndAfter(s, i, k, m) ==
  IF k >= 1 /\ k <= 5 /\ m >= 2 /\ WordBoundary(s, i + k + m) THEN i + k + m - 1 ELSE 0

\* ID_PATTERN = \b([A-Z]{1,5}\d{2,})\b : the end position of the match that
\* starts at position i, or 0 when the pattern does not match there
IdMatchEnd(s, i) ==
  IF WordBoundary(s, i)
  THEN IdEndAfter(s, i, UpperRun(s, i), DigitRun(s, i + UpperRun(s, i)))
  ELSE 0

\* ID_PATTERN.findall(s): non-overlapping matches, left to right
RECURSIVE FindAllFrom(_, _)
FindAllFrom(s, i) ==
  IF i > Len(s) THEN <<>>
  ELSE LET e == IdMatchEnd(s, i)
       IN  IF e = 0 THEN FindAllFrom(s, i + 1)
           ELSE <<SubSeq(s, i, e)>> \o FindAllFrom(s, e + 1)

FindAllIds(s) == FindAllFrom(s, 1)

\* STATE_KEYWORDS, in declared order
STATE_KEYWORDS ==
  << << <<"in progress", "progressing", "working on", "underway">>, "In-Progress" >>,
     << <<"completed", "complete", "done", "finished">>, "Completed" >>,
     << <<"accepted", "signed off", "shipped">>, "Accepted" >>,
     << <<"not started", "no progress", "to do", "todo", "backlog">>, "Defined" >>,
     << <<"ready for qa", "ready for test", "ready for testing", "waiting on qa">>, "Completed" >>,
     << <<"testing", "in test", "qa in progress">>, "In-Progress" >>,
     << <<"in review", "code review", "reviewing">>, "In-Progress" >> >>

\* _detect_state: the canonical state of the first group with a keyword in
\* the snippet, or None
\* _detect_state without the early return: the last group with a keyword in
\* the snippet decides
RECURSIVE DetectStateFrom_LastWins(_, _)
DetectStateFrom_LastWins(snippet_lower, g) ==
  IF g > Len(STATE_KEYWORDS) THEN None
  ELSE IF DetectStateFrom_LastWins(snippet_lower, g + 1) # None
       THEN DetectStateFrom_LastWins(snippet_lower, g + 1)
       ELSE IF \E n \in 1..Len(STATE_KEYWORDS[g][1]) :
                 Contains(snippet_lower, STATE_KEYWORDS[g][1][n])
            THEN Some(STATE_KEYWORDS[g][2])
            ELSE None

RECURSIVE DetectStateFrom(_, _)
DetectStateFrom(snippet_lower, g) ==
  IF g > Len(STATE_KEYWORDS) THEN None
  ELSE LET keywords == STATE_KEYWORDS[g][1]
       IN  IF \E n \in 1..Len(keywords) : Contains(snippet_lower, keywords[n])
           THEN Some(STATE_KEYWORDS[g][2])
           ELSE DetectStateFrom(snippet_lower, g + 1)

detect_state(snippet_lower) == DetectStateFrom(snippet_lower, 1)

\* the alternatives of the optional connector group, in pattern order
Connectors == <<"on", "by", "because of", "due to">>

\* where group "reason" ([^.]+) starts when \s* is tried at position a: \s*
\* takes the whole run of whitespace and gives one character back when
\* nothing is left for the group; 0 when the group cannot match
ReasonAfter(s, a) ==
  LET r == SpaceRun(s, a)
  IN  IF a + r <= Len(s) /\ Ch(s, a + r) # "." THEN a + r
      ELSE IF r >= 1 THEN a + r - 1
      ELSE 0

\* ReasonStartAt with the connector group not optional
ReasonStartAt_ConnectorRequired(s, i) ==
  IF ~(StartsAt(s, i, "blocked") /\ WordBoundary(s, i) /\ WordBoundary(s, i + 7))
  THEN 0
  ELSE LET e  == i + 7
           ws == SpaceRun(s, e)
           withConn(n) ==
             IF ws >= 1 /\ StartsAt(s, e + ws, Connectors[n])
             THEN ReasonAfter(s, e + ws + Len(Connectors[n]))
             ELSE 0
           taken == {n \in 1..Len(Connectors) : withConn(n) # 0}
       IN  IF taken # {}
           THEN withConn(CHOOSE n \in taken : \A m \in taken : n <= m)
           ELSE 0

\* The reason pattern tried at position i:
\*   \bblocked\b(?:\s+on|\s+by|\s+because of|\s+due to)?\s*(?P<reason>[^.]+)
\* Returns the start position of group "reason", or 0 when the pattern does
\* not match at i. The alternatives are tried in order, then the group is
\* skipped.
ReasonStartAt(s, i) ==
  IF ~(StartsAt(s, i, "blocked") /\ WordBoundary(s, i) /\ WordBoundary(s, i + 7))
  THEN 0
  ELSE LET e  == i + 7
           ws == SpaceRun(s, e)
           withConn(n) ==
             IF ws >= 1 /\ StartsAt(s, e + ws, Connectors[n])
             THEN ReasonAfter(s, e + ws + Len(Connectors[n]))
             ELSE 0
           taken == {n \in 1..Len(Connectors) : withConn(n) # 0}
       IN  IF taken # {}
           THEN withConn(CHOOSE n \in taken : \A m \in taken : n <= m)
           ELSE ReasonAfter(s, e)

\* the end position of group "reason" started at position a: [^.]+ is greedy
RECURSIVE ReasonEnd(_, _)
ReasonEnd(s, a) ==
  IF a + 1 <= Len(s) /\ Ch(s, a + 1) # "." THEN ReasonEnd(s, a + 1) ELSE a

\* the leftmost position where the reason pattern matches (re.search), or 0
FirstReasonMatch(s) ==
  IF \E i \in 1..Len(s) : ReasonStartAt(s, i) # 0
  THEN CHOOSE i \in 1..Len(s) :
         ReasonStartAt(s, i) # 0 /\ \A j \in 1..(i - 1) : ReasonStartAt(s, j) = 0
  ELSE 0

\* reason_match.group("reason").strip() for the group starting at position a,
\* and "reason if reason else None"
ReasonGroup(s, a) == Strip(SubSeq(s, a, ReasonEnd(s, a)))

OrNone(reason) == IF reason # "" THEN Some(reason) ELSE None

\* the second half of _detect_blocked, for the match found at position first
BlockedResult(s, first) ==
  IF first # 0
  THEN <<Some(TRUE), OrNone(ReasonGroup(s, ReasonStartAt(s, first)))>>
  ELSE <<Some(TRUE), None>>

\* _detect_blocked answering False, not None, for a snippet without keyword
detect_blocked_FalseWhenAbsent(snippet_lower) ==
  IF ~Contains(snippet_lower, "blocked") /\ ~Contains(snippet_lower, "blocker")
  THEN <<Some(FALSE), None>>
  ELSE BlockedResult(snippet_lower, FirstReasonMatch(snippet_lower))

\* _detect_blocked: <<blocked, blocked_reason>>
detect_blocked(snippet_lower) ==
  IF ~Contains(snippet_lower, "blocked") /\ ~Contains(snippet_lower, "blocker")
  THEN <<None, None>>
  ELSE BlockedResult(snippet_lower, FirstReasonMatch(snippet_lower))

\* TranscriptArtifactUpdate
TranscriptArtifactUpdate(fid, st, bl, br, sm) ==
  [formatted_id |-> fid, state |-> st, blocked |-> bl,
   blocked_reason |-> br, summary |-> sm]

\* DictPut merging field by field: a field the new update leaves unset keeps
\* the earlier value
DictPut_Merge(updates, update) ==
  IF \E n \in 1..Len(updates) : updates[n].formatted_id = update.formatted_id
  THEN [n \in 1..Len(updates) |->
          IF updates[n].formatted_id = update.formatted_id
          THEN [update EXCEPT
                  !.state = IF update.state = None THEN updates[n].state ELSE update.state,
                  !.blocked = IF update.blocked = None THEN updates[n].blocked
                              ELSE update.blocked,
                  !.blocked_reason = IF update.blocked_reason = None
                                     THEN updates[n].blocked_reason
                                     ELSE update.blocked_reason]
          ELSE updates[n]]
  ELSE Append(updates, update)

\* DictPut as "del updates[key]; updates[key] = update": a key seen again
\* moves to the end
DictPut_MoveToEnd(updates, update) ==
  Append(SelectSeq(updates, LAMBDA u : u.formatted_id # update.formatted_id), update)

\* DictPut on a structure that keeps every update: a key seen again is
\* appended once more
DictPut_KeepAll(updates, update) == Append(updates, update)

\* updates[formatted_id] = update on an insertion-ordered dict, the dict
\* being the sequence of its values: an existing key keeps its position
DictPut(updates, update) ==
  IF \E n \in 1..Len(updates) : updates[n].formatted_id = update.formatted_id
  THEN [n \in 1..Len(updates) |->
          IF updates[n].formatted_id = update.formatted_id THEN update ELSE updates[n]]
  ELSE Append(updates, update)

RECURSIVE PutMatches(_, _, _, _, _, _, _)
PutMatches(updates, matches, n, st, bl, br, snippet) ==
  IF n > Len(matches) THEN updates
  ELSE PutMatches(DictPut(updates, TranscriptArtifactUpdate(matches[n], st, bl, br, snippet)),
                  matches, n + 1, st, bl, br, snippet)

\* DerivedFields without the In-Progress rule
DerivedFields_NoDerivedState(detected, b) == <<detected, b[1], b[2]>>

\* "if blocked and state is None: state = 'In-Progress'" on the detected
\* state and the detected <<blocked, blocked_reason>>:
\* <<state, blocked, blocked_reason>>
DerivedFields(detected, b) ==
  <<IF b[1] = Some(TRUE) /\ detected = None THEN Some("In-Progress") ELSE detected,
    b[1], b[2]>>

\* the fields parse_transcript derives from snippet_lower
LowerFields(snippet_lower) ==
  DerivedFields(detect_state(snippet_lower), detect_blocked(snippet_lower))

\* the fields parse_transcript derives from one stripped snippet:
\* <<state, blocked, blocked_reason>>
SnippetFields(snippet) == LowerFields(Lower(snippet))

\* the inner for loop: one update per match, all with the snippet's fields f
PutFields(updates, matches, f, snippet) ==
  PutMatches(updates, matches, 1, f[1], f[2], f[3], snippet)

\* the loop body from "matches = ..." on
ProcessMatches(updates, snippet, matches) ==
  IF matches = <<>> THEN updates
  ELSE PutFields(updates, matches, SnippetFields(snippet), snippet)

\* the loop body from "if not snippet" on
ProcessStripped(updates, snippet) ==
  IF snippet = "" THEN updates
  ELSE ProcessMatches(updates, snippet, FindAllIds(snippet))

\* one iteration of the loop of parse_transcript over raw_snippet
ProcessSnippet(updates, raw_snippet) == ProcessStripped(updates, Strip(raw_snippet))

RECURSIVE ParseFrom(_, _, _)
ParseFrom(updates, snippets, n) ==
  IF n > Len(snippets) THEN updates
  ELSE ParseFrom(ProcessSnippet(updates, snippets[n]), snippets, n + 1)

\* parse_transcript
parse_transcript(transcript) == ParseFrom(<<>>, SplitSnippets(transcript), 1)

\* ------------------------------------------------------------------------
\* rally_client.py
\* ------------------------------------------------------------------------

\* STATE_FIELD_BY_TYPE with "State" for every mapped type
STATE_FIELD_BY_TYPE_AllState ==
  [t \in {"HierarchicalRequirement", "Defect", "Task"} |-> "State"]

\* STATE_FIELD_BY_TYPE
STATE_FIELD_BY_TYPE ==
  [t \in {"HierarchicalRequirement", "Defect", "Task"} |->
     IF t = "HierarchicalRequirement" THEN "ScheduleState" ELSE "State"]

\* BLOCKED_SUPPORTED_TYPES
BLOCKED_SUPPORTED_TYPES == {"HierarchicalRequirement", "Defect", "Task"}

\* dict.get(key) on a dict of strings: None for a missing key
DictGet(d, k) == IF k \in DOMAIN d THEN Some(d[k]) ELSE None

\* the exception classes and their base classes
NotFoundError == "RallyArtifactNotFoundError"

UpdateError == "RallyArtifactUpdateError"

UnsupportedError == "RallyUnsupportedArtifactTypeError"

OtherError == "Exception"

\* isinstance(exc, cls) for an exception of class kind
IsInstance(kind, cls) ==
  \/ cls = kind
  \/ cls = "Exception"
  \/ cls = UpdateError /\ kind = UnsupportedError

\* RallyArtifact.from_rally on the record the lookup returns
RallyArtifact(fid, type, ref) ==
  [formatted_id |-> fid, type |-> type, ref |-> ref, raw_type |-> type]

\* _state_field_for_artifact falling back to "State" for an unmapped type
state_field_for_artifact_Default(artifact) ==
  IF artifact.type \in DOMAIN STATE_FIELD_BY_TYPE
  THEN Some(STATE_FIELD_BY_TYPE[artifact.type])
  ELSE Some("State")

\* RallyClient._state_field_for_artifact
state_field_for_artifact(artifact) ==
  LET state_field == DictGet(STATE_FIELD_BY_TYPE, artifact.type)
  IN  IF Truthy(state_field) THEN state_field
      ELSE IF StartsAt(artifact.type, 1, "PortfolioItem/") THEN None
      ELSE DictGet(STATE_FIELD_BY_TYPE, artifact.raw_type)

\* the message of the RallyArtifactNotFoundError of find_artifact
NotFoundMessage(fid) == "No Rally work item found for formatted ID " \o fid \o "."

\* the message of the RallyUnsupportedArtifactTypeError of apply_transcript_update
UnsupportedMessage(fid, type) ==
  "Artifact " \o fid \o " (" \o type \o ") does not support automatic state updates."

\* body: Dict[str, Any] = {} ; a key that maps to None is absent
EmptyBody == [ScheduleState |-> None, State |-> None, Blocked |-> None, BlockedReason |-> None]

\* the state part of the body: lines 246-254; "unsupported" when the
\* update carries a state and the type has no state field
StateStep(update, artifact) ==
  LET state_field == state_field_for_artifact(artifact)
  IN  IF Truthy(update.state)
      THEN IF ~Truthy(state_field)
           THEN [unsupported |-> TRUE, body |-> EmptyBody,
                 applied_state |-> None, applied_state_field |-> None]
           ELSE [unsupported |-> FALSE,
                 body |-> [EmptyBody EXCEPT ![Val(state_field)] = update.state],
                 applied_state |-> update.state, applied_state_field |-> state_field]
      ELSE [unsupported |-> FALSE, body |-> EmptyBody,
            applied_state |-> None, applied_state_field |-> None]

\* BlockedStep without the check of BLOCKED_SUPPORTED_TYPES
BlockedStep_NoTypeCheck(body, update, artifact) ==
  IF update.blocked # None
  THEN IF Val(update.blocked)
       THEN [body EXCEPT !.Blocked = Some(TRUE),
                         !.BlockedReason =
                            IF Truthy(update.blocked_reason) THEN update.blocked_reason
                            ELSE Some(update.summary)]
       ELSE [body EXCEPT !.Blocked = Some(FALSE), !.BlockedReason = Some("")]
  ELSE body

\* BlockedStep without the fallback to the summary
BlockedStep_NoFallback(body, update, artifact) ==
  IF update.blocked # None
  THEN IF artifact.type \notin BLOCKED_SUPPORTED_TYPES
       THEN body
       ELSE IF Val(update.blocked)
            THEN [body EXCEPT !.Blocked = Some(TRUE),
                              !.BlockedReason = update.blocked_reason]
            ELSE [body EXCEPT !.Blocked = Some(FALSE), !.BlockedReason = Some("")]
  ELSE body

\* BlockedStep that starts a new body for the blocked fields, losing the
\* state field already collected
BlockedStep_FreshBody(body, update, artifact) ==
  IF update.blocked # None
  THEN IF artifact.type \notin BLOCKED_SUPPORTED_TYPES
       THEN body
       ELSE IF Val(update.blocked)
            THEN [EmptyBody EXCEPT !.Blocked = Some(TRUE),
                                   !.BlockedReason =
                                      IF Truthy(update.blocked_reason) THEN update.blocked_reason
                                      ELSE Some(update.summary)]
            ELSE [EmptyBody EXCEPT !.Blocked = Some(FALSE), !.BlockedReason = Some("")]
  ELSE body

\* the blocked part of the body: lines 256-268
BlockedStep(body, update, artifact) ==
  IF update.blocked # None
  THEN IF artifact.type \notin BLOCKED_SUPPORTED_TYPES
       THEN body
       ELSE IF Val(update.blocked)
            THEN [body EXCEPT !.Blocked = Some(TRUE),
                              !.BlockedReason =
                                 IF Truthy(update.blocked_reason) THEN update.blocked_reason
                                 ELSE Some(update.summary)]
            ELSE [body EXCEPT !.Blocked = Some(FALSE), !.BlockedReason = Some("")]
  ELSE body

\* ArtifactUpdateResult as built at the end of apply_transcript_update
ArtifactUpdateResult(update, artifact, body, applied_state, applied_state_field, comment_posted) ==
  [formatted_id |-> artifact.formatted_id,
   artifact_type |-> artifact.type,
   applied_state_field |-> applied_state_field,
   applied_state |-> applied_state,
   blocked |-> body.Blocked,
   blocked_reason |-> body.BlockedReason,
   summary |-> update.summary,
   comment_posted |-> comment_posted,
   comment_text |-> IF comment_posted THEN Some(update.summary) ELSE None]

\* ------------------------------------------------------------------------
\* The remote service, as far as the client observes it
\* ------------------------------------------------------------------------

\* the _type values the lookup may report
ArtifactTypes ==
  {"HierarchicalRequirement", "Defect", "Task", "PortfolioItem/Feature", "TestCase"}

\* the records the lookup may return for the query of fid, by _type and
\* FormattedID: the work item asked for, of any type, or another work item,
\* the defect DE34
FoundRecords(fid) ==
  {[type |-> type, formatted_id |-> fid] : type \in ArtifactTypes}
    \cup {[type |-> "Defect", formatted_id |-> "DE34"]}

\* the _ref the lookup reports for the query of fid
RefOf(fid) == "/artifact/" \o fid

\* the first entry of Errors in a rejected OperationResult / CreateResult
RemoteErrorText == "Validation error: not permitted"

\* the text of a transport failure (raise_for_status, connection, decoding)
TransportErrorText == "503 Server Error"

\* what one remote call can come to: accepted, rejected with Errors, or a
\* transport failure
CallOutcomes == {"ok", "rejected", "error"}

\* MutateException without the check of the Errors list
MutateException_IgnoreErrors(outcome) ==
  IF outcome = "error" THEN Some([kind |-> OtherError, message |-> TransportErrorText])
  ELSE None

\* MutateException without raise_for_status()
MutateException_NoRaiseForStatus(outcome) ==
  IF outcome = "rejected" THEN Some([kind |-> UpdateError, message |-> RemoteErrorText])
  ELSE None

\* the exception the mutation call raises on an outcome, or None:
\* raise_for_status() raises for a transport failure, and a non-empty Errors
\* list raises RallyArtifactUpdateError(errors[0])
MutateException(outcome) ==
  IF outcome = "error" THEN Some([kind |-> OtherError, message |-> TransportErrorText])
  ELSE IF outcome = "rejected" THEN Some([kind |-> UpdateError, message |-> RemoteErrorText])
  ELSE None

\* the exception _create_conversation_post raises on an outcome, or None
CommentException(outcome) ==
  IF outcome = "error" THEN Some([kind |-> OtherError, message |-> TransportErrorText])
  ELSE IF outcome = "rejected" THEN Some([kind |-> UpdateError, message |-> RemoteErrorText])
  ELSE None

\* ------------------------------------------------------------------------
\* api/transcript.py
\* ------------------------------------------------------------------------

\* list.insert(0, item) in place of list.append
ListAppend_Prepend(list, item) == <<item>> \o list

\* list.append
ListAppend(list, item) == Append(list, item)

\* BatchCatch without the "except Exception" clause
BatchCatch_NoCatchAll(kind, message) ==
  IF \E cls \in {NotFoundError, UnsupportedError, UpdateError} : IsInstance(kind, cls)
  THEN Some(message)
  ELSE None

\* BatchCatch with the catch-all clause alone: every reason wrapped
BatchCatch_AlwaysWrapped(kind, message) == Some("Unexpected error: " \o message)

\* the except clauses of the loop of update_artifacts_from_transcript: the
\* reason of the skip entry, or None when no clause catches the exception
BatchCatch(kind, message) ==
  IF \E cls \in {NotFoundError, UnsupportedError, UpdateError} : IsInstance(kind, cls)
  THEN Some(message)
  ELSE IF IsInstance(kind, "Exception")
  THEN Some("Unexpected error: " \o message)
  ELSE None

\* ManualCatch with the clause of the base class RallyArtifactUpdateError
\* ahead of the clause of its subclass
ManualCatch_BaseClassFirst(kind, message) ==
  IF IsInstance(kind, NotFoundError) THEN [status |-> 404, detail |-> message]
  ELSE IF IsInstance(kind, UpdateError) THEN [status |-> 502, detail |-> message]
  ELSE IF IsInstance(kind, UnsupportedError) THEN [status |-> 400, detail |-> message]
  ELSE [status |-> 502, detail |-> "Unexpected error: " \o message]

\* the except clauses of manual_artifact_update, in order: the HTTPException
ManualCatch(kind, message) ==
  IF IsInstance(kind, NotFoundError) THEN [status |-> 404, detail |-> message]
  ELSE IF IsInstance(kind, UnsupportedError) THEN [status |-> 400, detail |-> message]
  ELSE IF IsInstance(kind, UpdateError) THEN [status |-> 502, detail |-> message]
  ELSE [status |-> 502, detail |-> "Unexpected error: " \o message]

\* SkippedArtifactUpdateModel
SkippedArtifactUpdateModel(fid, reason, summary) ==
  [formatted_id |-> fid, reason |-> reason, summary |-> summary]

\* TranscriptUpdateResponseModel, as a 200 response
TranscriptUpdateResponseModel(total, appliedList, skippedList) ==
  [status |-> 200,
   total_mentions |-> total,
   applied_count |-> Len(appliedList),
   skipped_count |-> Len(skippedList),
   applied |-> appliedList,
   skipped |-> skippedList]

\* TranscriptRequestError without the check of the transcript
TranscriptRequestError_NoTranscriptCheck(workspace, transcript) ==
  IF workspace = "" THEN Some("Workspace is required.")
  ELSE None

\* the request checks of update_artifacts_from_transcript: the detail of the
\* 400 response, or None
TranscriptRequestError(workspace, transcript) ==
  IF workspace = "" THEN Some("Workspace is required.")
  ELSE IF transcript = "" \/ Strip(transcript) = "" THEN Some("Transcript content is required.")
  ELSE None

\* the request checks of manual_artifact_update
ManualRequestError(workspace, fid, comment) ==
  IF workspace = "" THEN Some("Workspace is required.")
  ELSE IF fid = "" \/ Strip(fid) = "" THEN Some("Formatted ID is required.")
  ELSE IF comment = "" \/ Strip(comment) = "" THEN Some("Comment text is required.")
  ELSE None

\* ManualUpdate with the comment taken as it came
ManualUpdate_RawComment(fid, st, bl, br, comment) ==
  TranscriptArtifactUpdate(Strip(fid),
                           IF Truthy(st) THEN Some(Strip(Val(st))) ELSE None,
                           bl, br, comment)

\* the TranscriptArtifactUpdate manual_artifact_update builds
ManualUpdate(fid, st, bl, br, comment) ==
  TranscriptArtifactUpdate(Strip(fid),
                           IF Truthy(st) THEN Some(Strip(Val(st))) ELSE None,
                           bl, br, Strip(comment))

\* ------------------------------------------------------------------------
\* Inputs
\* ------------------------------------------------------------------------

\* most phrases of a transcript handed to the parser alone
MaxPhrases == 3

\* most phrases of a transcript posted to the batch endpoint
MaxBatchPhrases == 2

\* pieces of standup text; a transcript is a concatenation of phrases
Phrases ==
  {"US12 is done.",
   " DE34 in progress\n",
   "US12 blocked by db. ",
   "DE34 and US12 testing\n",
   "TA56 blocker",
   "US12 \n",
   "standup notes. ",
   "us12 TA5 ABCDEF12 todo.",
   " \n"}

\* phrases of the transcripts posted to the batch endpoint
BatchPhrases ==
  {"US12 is done.",
   " DE34 in progress\n",
   "US12 blocked by db. ",
   "DE34 and US12\n",
   "TA56 blocker",
   "standup notes. ",
   "us12 TA5 ABCDEF12 todo.",
   " \n"}

RECURSIVE Concat(_, _)
Concat(seq, n) == IF n > Len(seq) THEN "" ELSE seq[n] \o Concat(seq, n + 1)

\* the concatenations of at most n phrases of the pool
TextsOf(pool, n) == {Concat(seq, 1) : seq \in UNION {[1..k -> pool] : k \in 0..n}}

\* most words of a snippet handed to the loop body alone
MaxWords == 3

\* pieces of one snippet; a snippet is a concatenation of words and, coming
\* out of re.split, holds neither "." nor a newline
Words ==
  {"US12", " DE34", " blocked", " Blocker", " by", " on", " due to", " because of",
   " done", " in progress", " ready for testing", " db"}

Workspaces == {"", "/workspace/123"}

ManualIds == {"", "US12", " DE34 "}

ManualStates == {None, Some(""), Some(" "), Some(" Completed ")}

ManualBlocked == {None, Some(TRUE), Some(FALSE)}

ManualReasons == {None, Some(""), Some("waiting on db")}

ManualComments == {" ", " Manual update. ", " US12 is done "}

\* ------------------------------------------------------------------------
\* State
\* ------------------------------------------------------------------------
VARIABLES
  endpoint,             \* the route of the request: "none", "transcript", "manual"
  payload,              \* the request body
  pc,                   \* where the handler is: "idle", "find", "mutate", "comment", "return", "done"
  parsed_updates,       \* update_artifacts_from_transcript: the parser's output
  idx,                  \* position of the for loop in parsed_updates
  update,               \* the update being applied (Optional)
  artifact,             \* apply_transcript_update: the looked-up artifact (Optional)
  body,                 \* apply_transcript_update: the field mutations collected
  applied_state,        \* apply_transcript_update
  applied_state_field,  \* apply_transcript_update
  comment_posted,       \* apply_transcript_update
  applied,              \* update_artifacts_from_transcript
  skipped,              \* update_artifacts_from_transcript
  response,             \* the HTTP response (Optional)
  calls,                \* the remote calls issued so far, with their outcomes
  raised,               \* the exceptions apply_transcript_update has raised so far
  returned,             \* the identifiers of the updates whose apply has returned so far
  text,                 \* parse_transcript: the argument
  ppc,                  \* parse_transcript: "off", "call", "loop", "returned"
  snippets,             \* parse_transcript: re.split(...)
  snip,                 \* parse_transcript: position of the for loop in snippets
  updates,              \* parse_transcript: the dict, as the sequence of its values
  parsed,               \* parse_transcript: the returned list (Optional)
  raw_snippet,          \* loop body of parse_transcript: the element of re.split(...)
  dpc,                  \* loop body: "off", "strip", "state", "blocked", "derive", "put", "next"
  snippet,              \* loop body: raw_snippet.strip()
  matches,              \* loop body: ID_PATTERN.findall(snippet)
  snippet_lower,        \* loop body: snippet.lower()
  state,                \* loop body (Optional)
  blocked,              \* loop body (Optional)
  blocked_reason,       \* loop body (Optional)
  remote,               \* the work items of the remote service, by identifier
  workers,              \* one frame of apply_transcript_update per intent of a batch
  finished              \* the intents, by position, in the order their applies ended

handlerVars == <<endpoint, payload, pc, parsed_updates, idx, update, artifact, body,
                 applied_state, applied_state_field, comment_posted, applied, skipped,
                 response, calls, raised, returned>>

parserVars == <<text, ppc, snippets, snip, updates, parsed>>

orderVars == <<remote, workers, finished>>

detectVars == <<raw_snippet, dpc, snippet, matches, snippet_lower, state, blocked,
                blocked_reason>>

vars == <<endpoint, payload, pc, parsed_updates, idx, update, artifact, body,
          applied_state, applied_state_field, comment_posted, applied, skipped,
          response, calls, raised, returned, text, ppc, snippets, snip, updates, parsed,
          raw_snippet, dpc, snippet, matches, snippet_lower, state, blocked,
          blocked_reason, remote, workers, finished>>

\* the server before a request arrives
HandlerIdle ==
  /\ endpoint = "none"
  /\ payload = None
  /\ pc = "idle"
  /\ parsed_updates = <<>>
  /\ idx = 0
  /\ update = None
  /\ artifact = None
  /\ body = EmptyBody
  /\ applied_state = None
  /\ applied_state_field = None
  /\ comment_posted = FALSE
  /\ applied = <<>>
  /\ skipped = <<>>
  /\ response = None
  /\ calls = <<>>
  /\ raised = <<>>
  /\ returned = <<>>

\* the parser not called
ParserOff ==
  /\ text = ""
  /\ ppc = "off"
  /\ snippets = <<>>
  /\ snip = 0
  /\ updates = <<>>
  /\ parsed = None

\* the loop body not entered
DetectOff ==
  /\ raw_snippet = ""
  /\ dpc = "off"
  /\ snippet = ""
  /\ matches = <<>>
  /\ snippet_lower = ""
  /\ state = None
  /\ blocked = None
  /\ blocked_reason = None

\* no worker started
OrderOff ==
  /\ remote = <<>>
  /\ workers = <<>>
  /\ finished = <<>>

Init == HandlerIdle /\ ParserOff /\ DetectOff /\ OrderOff

\* ------------------------------------------------------------------------
\* Steps of the handlers
\* ------------------------------------------------------------------------

\* the update being applied
cur == Val(update)

\* the locals of apply_transcript_update are gone when it returns or raises
ResetFrame ==
  /\ artifact' = None
  /\ body' = EmptyBody
  /\ applied_state' = None
  /\ applied_state_field' = None
  /\ comment_posted' = FALSE

\* one remote call as recorded in calls
Call(op, target, type, fields, txt, outcome) ==
  [op |-> op, target |-> target, type |-> type, body |-> fields, text |-> txt,
   outcome |-> outcome]

\* ArtifactUpdateModel.from_domain
FromDomain(result) ==
  [formatted_id |-> result.formatted_id,
   artifact_type |-> result.artifact_type,
   applied_state_field |-> result.applied_state_field,
   applied_state |-> result.applied_state,
   blocked |-> result.blocked,
   blocked_reason |-> result.blocked_reason,
   summary |-> result.summary,
   comment_posted |-> result.comment_posted,
   comment_text |-> result.comment_text]

\* the for loop of update_artifacts_from_transcript moves on: to the next
\* update, or to the return statement after the last one
Continue(newApplied, newSkipped) ==
  /\ applied' = newApplied
  /\ skipped' = newSkipped
  /\ IF idx < Len(parsed_updates)
     THEN /\ idx' = idx + 1
          /\ update' = Some(parsed_updates[idx + 1])
          /\ pc' = "find"
          /\ response' = response
     ELSE /\ pc' = "done"
          /\ response' = Some(TranscriptUpdateResponseModel(Len(parsed_updates),
                                                            newApplied, newSkipped))
          /\ UNCHANGED <<idx, update>>

\* apply_transcript_update raises exc; the endpoint's except clauses run
Fail(exc) ==
  /\ raised' = Append(raised, [formatted_id |-> cur.formatted_id,
                               kind |-> exc.kind, message |-> exc.message])
  /\ returned' = returned
  /\ ResetFrame
  /\ IF endpoint = "transcript"
     THEN LET reason == BatchCatch(exc.kind, exc.message)
          IN  IF reason = None
              THEN /\ pc' = "done"
                   /\ response' = Some([status |-> 500, detail |-> "Internal Server Error"])
                   /\ UNCHANGED <<applied, skipped, idx, update>>
              ELSE Continue(applied,
                            ListAppend(skipped,
                                       SkippedArtifactUpdateModel(cur.formatted_id,
                                                                  Val(reason), cur.summary)))
     ELSE /\ pc' = "done"
          /\ response' = Some(ManualCatch(exc.kind, exc.message))
          /\ UNCHANGED <<applied, skipped, idx, update>>

\* where apply_transcript_update goes once the mutation step is over
AfterMutation(u) == IF u.summary # "" THEN "comment" ELSE "return"

\* update_artifacts_from_transcript once the request checks have passed and
\* the parser has returned parsedList
StartBatch(parsedList) ==
  /\ parsed_updates' = parsedList
  /\ IF parsedList = <<>>
     THEN /\ response' = Some(TranscriptUpdateResponseModel(0, <<>>, <<>>))
          /\ pc' = "done"
          /\ UNCHANGED <<idx, update>>
     ELSE /\ idx' = 1
          /\ update' = Some(parsedList[1])
          /\ pc' = "find"
          /\ response' = response

\* the 400 response of a request check
Reject(detail) ==
  /\ response' = Some([status |-> 400, detail |-> detail])
  /\ pc' = "done"

\* POST /artifacts/transcript, up to the first remote call
PostTranscript(workspace, transcript) ==
  /\ pc = "idle"
  /\ endpoint' = "transcript"
  /\ payload' = Some([workspace |-> workspace, transcript |-> transcript])
  /\ IF TranscriptRequestError(workspace, transcript) # None
     THEN /\ Reject(Val(TranscriptRequestError(workspace, transcript)))
          /\ UNCHANGED <<parsed_updates, idx, update>>
     ELSE StartBatch(parse_transcript(transcript))
  /\ UNCHANGED <<artifact, body, applied_state, applied_state_field, comment_posted,
                 applied, skipped, calls, raised, returned>>
  /\ UNCHANGED parserVars
  /\ UNCHANGED detectVars
  /\ UNCHANGED orderVars

\* POST /artifacts/manual, up to the first remote call
PostManual(workspace, fid, st, bl, br, comment) ==
  /\ pc = "idle"
  /\ endpoint' = "manual"
  /\ payload' = Some([workspace |-> workspace, formatted_id |-> fid, state |-> st,
                      blocked |-> bl, blocked_reason |-> br, comment |-> comment])
  /\ IF ManualRequestError(workspace, fid, comment) # None
     THEN /\ Reject(Val(ManualRequestError(workspace, fid, comment)))
          /\ update' = update
     ELSE /\ update' = Some(ManualUpdate(fid, st, bl, br, comment))
          /\ pc' = "find"
          /\ response' = response
  /\ UNCHANGED <<parsed_updates, idx, artifact, body, applied_state, applied_state_field,
                 comment_posted, applied, skipped, calls, raised, returned>>
  /\ UNCHANGED parserVars
  /\ UNCHANGED detectVars
  /\ UNCHANGED orderVars

\* apply_transcript_update from its start to the mutation call: the lookup
\* (find_artifact) and the collection of the field mutations
FindArtifact ==
  /\ pc = "find"
  /\ \/ \* the lookup fails in transport
        /\ calls' = Append(calls, Call("resolve", cur.formatted_id, "", EmptyBody, "", "error"))
        /\ Fail([kind |-> OtherError, message |-> TransportErrorText])
     \/ \* the query has no result
        /\ calls' = Append(calls, Call("resolve", cur.formatted_id, "", EmptyBody, "", "empty"))
        /\ Fail([kind |-> NotFoundError, message |-> NotFoundMessage(cur.formatted_id)])
     \/ \* the query returns a work item
        \E record \in FoundRecords(cur.formatted_id) :
          LET type == record.type
              found == RallyArtifact(record.formatted_id, type, RefOf(cur.formatted_id))
              st == StateStep(cur, found)
              fields == BlockedStep(st.body, cur, found)
          IN  /\ calls' = Append(calls, Call("resolve", cur.formatted_id, type,
                                             EmptyBody, "", "found"))
              /\ IF st.unsupported
                 THEN Fail([kind |-> UnsupportedError,
                            message |-> UnsupportedMessage(cur.formatted_id, type)])
                 ELSE /\ artifact' = Some(found)
                      /\ body' = fields
                      /\ applied_state' = st.applied_state
                      /\ applied_state_field' = st.applied_state_field
                      /\ pc' = IF fields # EmptyBody THEN "mutate" ELSE AfterMutation(cur)
                      /\ UNCHANGED <<comment_posted, applied, skipped, idx, update,
                                     response, raised, returned>>
  /\ UNCHANGED <<endpoint, payload, parsed_updates>>
  /\ UNCHANGED parserVars
  /\ UNCHANGED detectVars
  /\ UNCHANGED orderVars

\* the mutation call of apply_transcript_update: one POST with the whole body
MutateArtifact ==
  /\ pc = "mutate"
  /\ \E outcome \in CallOutcomes :
       LET exc == MutateException(outcome)
       IN  /\ calls' = Append(calls, Call("mutate", Val(artifact).ref, Val(artifact).type,
                                          body, "", outcome))
           /\ IF exc # None
              THEN Fail(Val(exc))
              ELSE /\ pc' = AfterMutation(cur)
                   /\ UNCHANGED <<artifact, body, applied_state, applied_state_field,
                                  comment_posted, applied, skipped, idx, update,
                                  response, raised, returned>>
  /\ UNCHANGED <<endpoint, payload, parsed_updates>>
  /\ UNCHANGED parserVars
  /\ UNCHANGED detectVars
  /\ UNCHANGED orderVars

\* _create_conversation_post, called with the summary
PostComment ==
  /\ pc = "comment"
  /\ \E outcome \in CallOutcomes :
       LET exc == CommentException(outcome)
       IN  /\ calls' = Append(calls, Call("comment", Val(artifact).ref, "", EmptyBody,
                                          cur.summary, outcome))
           /\ IF exc # None
              THEN Fail(Val(exc))
              ELSE /\ comment_posted' = TRUE
                   /\ pc' = "return"
                   /\ UNCHANGED <<artifact, body, applied_state, applied_state_field,
                                  applied, skipped, idx, update, response, raised,
                                  returned>>
  /\ UNCHANGED <<endpoint, payload, parsed_updates>>
  /\ UNCHANGED parserVars
  /\ UNCHANGED detectVars
  /\ UNCHANGED orderVars

\* apply_transcript_update returns its result to the endpoint
Return ==
  /\ pc = "return"
  /\ LET result == ArtifactUpdateResult(cur, Val(artifact), body, applied_state,
                                        applied_state_field, comment_posted)
     IN  IF endpoint = "transcript"
         THEN Continue(ListAppend(applied, FromDomain(result)), skipped)
         ELSE /\ pc' = "done"
              /\ response' = Some([status |-> 200, result |-> FromDomain(result)])
              /\ UNCHANGED <<applied, skipped, idx, update>>
  /\ returned' = Append(returned, cur.formatted_id)
  /\ ResetFrame
  /\ UNCHANGED <<endpoint, payload, parsed_updates, calls, raised>>
  /\ UNCHANGED parserVars
  /\ UNCHANGED detectVars
  /\ UNCHANGED orderVars

\* a request arrives only at a handler that is idle
Next ==
  \/ /\ pc = "idle"
     /\ \E workspace \in Workspaces, transcript \in TextsOf(BatchPhrases, MaxBatchPhrases) :
          PostTranscript(workspace, transcript)
  \/ /\ pc = "idle"
     /\ \E workspace \in Workspaces, fid \in ManualIds, st \in ManualStates,
           bl \in ManualBlocked, br \in ManualReasons, comment \in ManualComments :
          PostManual(workspace, fid, st, bl, br, comment)
  \/ FindArtifact
  \/ MutateArtifact
  \/ PostComment
  \/ Return

Spec == Init /\ [][Next]_vars

\* ------------------------------------------------------------------------
\* parse_transcript step by step
\* ------------------------------------------------------------------------
InitParser ==
  /\ HandlerIdle
  /\ text \in TextsOf(Phrases, MaxPhrases)
  /\ ppc = "call"
  /\ snippets = <<>>
  /\ snip = 0
  /\ updates = <<>>
  /\ parsed = None
  /\ DetectOff
  /\ OrderOff

\* updates = {} and re.split(r"[.\n]", transcript)
ParseSplit ==
  /\ ppc = "call"
  /\ snippets' = SplitSnippets(text)
  /\ snip' = 1
  /\ updates' = <<>>
  /\ ppc' = "loop"
  /\ UNCHANGED <<text, parsed>>
  /\ UNCHANGED handlerVars
  /\ UNCHANGED detectVars
  /\ UNCHANGED orderVars

\* one iteration of the for loop
ParseSnippet ==
  /\ ppc = "loop"
  /\ snip <= Len(snippets)
  /\ updates' = ProcessSnippet(updates, snippets[snip])
  /\ snip' = snip + 1
  /\ UNCHANGED <<text, ppc, snippets, parsed>>
  /\ UNCHANGED handlerVars
  /\ UNCHANGED detectVars
  /\ UNCHANGED orderVars

\* return list(updates.values())
ParseReturn ==
  /\ ppc = "loop"
  /\ snip > Len(snippets)
  /\ parsed' = Some(updates)
  /\ ppc' = "returned"
  /\ UNCHANGED <<text, snippets, snip, updates>>
  /\ UNCHANGED handlerVars
  /\ UNCHANGED detectVars
  /\ UNCHANGED orderVars

NextParser == ParseSplit \/ ParseSnippet \/ ParseReturn

SpecParser == InitParser /\ [][NextParser]_vars

\* ------------------------------------------------------------------------
\* One iteration of the loop of parse_transcript, statement by statement
\* ------------------------------------------------------------------------
InitDetect ==
  /\ HandlerIdle
  /\ ParserOff
  /\ raw_snippet \in TextsOf(Words, MaxWords)
  /\ dpc = "strip"
  /\ snippet = ""
  /\ matches = <<>>
  /\ snippet_lower = ""
  /\ state = None
  /\ blocked = None
  /\ blocked_reason = None
  /\ OrderOff

\* snippet = raw_snippet.strip(), matches = ID_PATTERN.findall(snippet) with
\* the two "continue" statements, and snippet_lower = snippet.lower()
DetectStrip ==
  /\ dpc = "strip"
  /\ snippet' = Strip(raw_snippet)
  /\ IF Strip(raw_snippet) = ""
     THEN /\ dpc' = "next"
          /\ UNCHANGED <<matches, snippet_lower>>
     ELSE /\ matches' = FindAllIds(Strip(raw_snippet))
          /\ IF FindAllIds(Strip(raw_snippet)) = <<>>
             THEN /\ dpc' = "next"
                  /\ UNCHANGED snippet_lower
             ELSE /\ snippet_lower' = Lower(Strip(raw_snippet))
                  /\ dpc' = "state"
  /\ UNCHANGED <<raw_snippet, state, blocked, blocked_reason>>
  /\ UNCHANGED handlerVars
  /\ UNCHANGED orderVars
  /\ UNCHANGED parserVars

\* state = _detect_state(snippet_lower)
DetectState ==
  /\ dpc = "state"
  /\ state' = detect_state(snippet_lower)
  /\ dpc' = "blocked"
  /\ UNCHANGED <<raw_snippet, snippet, matches, snippet_lower, blocked, blocked_reason>>
  /\ UNCHANGED handlerVars
  /\ UNCHANGED orderVars
  /\ UNCHANGED parserVars

\* blocked, blocked_reason = _detect_blocked(snippet_lower)
DetectBlocked ==
  /\ dpc = "blocked"
  /\ blocked' = detect_blocked(snippet_lower)[1]
  /\ blocked_reason' = detect_blocked(snippet_lower)[2]
  /\ dpc' = "derive"
  /\ UNCHANGED <<raw_snippet, snippet, matches, snippet_lower, state>>
  /\ UNCHANGED handlerVars
  /\ UNCHANGED orderVars
  /\ UNCHANGED parserVars

\* if blocked and state is None: state = "In-Progress"
DeriveState ==
  /\ dpc = "derive"
  /\ state' = DerivedFields(state, <<blocked, blocked_reason>>)[1]
  /\ dpc' = "put"
  /\ UNCHANGED <<raw_snippet, snippet, matches, snippet_lower, blocked, blocked_reason>>
  /\ UNCHANGED handlerVars
  /\ UNCHANGED orderVars
  /\ UNCHANGED parserVars

\* the inner for loop: updates[formatted_id] = update for every match
PutUpdates ==
  /\ dpc = "put"
  /\ updates' = PutFields(updates, matches, <<state, blocked, blocked_reason>>, snippet)
  /\ dpc' = "next"
  /\ UNCHANGED <<text, ppc, snippets, snip, parsed>>
  /\ UNCHANGED <<raw_snippet, snippet, matches, snippet_lower, state, blocked,
                 blocked_reason>>
  /\ UNCHANGED handlerVars
  /\ UNCHANGED orderVars

NextDetect == DetectStrip \/ DetectState \/ DetectBlocked \/ DeriveState \/ PutUpdates

SpecDetect == InitDetect /\ [][NextDetect]_vars

\* ------------------------------------------------------------------------
\* The applies of one batch run as workers, one per intent, in any
\* interleaving, against a remote service whose answers are fixed per work
\* item
\* ------------------------------------------------------------------------

\* phrases of the transcripts whose intents the workers apply
OrderPhrases ==
  {"US12 is done.", "DE34 and US12 blocked by db\n", "TA56 blocker. ", " DE34 in progress\n"}

\* the work items the remote service holds
RemoteIds == {"US12", "DE34", "TA56"}

\* the _type of each work item
RemoteTypeOf(fid) ==
  IF fid = "US12" THEN "HierarchicalRequirement"
  ELSE IF fid = "DE34" THEN "Defect"
  ELSE "TestCase"

\* what the remote service gets wrong: nothing, or one kind of call on one
\* work item
Faults ==
  {[target |-> "", op |-> "", outcome |-> ""]} \cup
  {[target |-> f, op |-> o[1], outcome |-> o[2]] :
     f \in RemoteIds,
     o \in {<<"resolve", "error">>, <<"resolve", "empty">>, <<"mutate", "rejected">>,
            <<"mutate", "error">>, <<"comment", "rejected">>, <<"comment", "error">>}}

\* the answer of the remote service to a call of kind op on work item fid
AnswerOf(fault, fid, op, normal) ==
  IF fault.target = fid /\ fault.op = op THEN fault.outcome ELSE normal

\* the remote service with a fault: per work item its FormattedID, its type,
\* its answers, the fields written so far and the commentary posted so far
RemoteWith(fault) ==
  [f \in RemoteIds |->
     [formatted_id |-> f,
      type |-> RemoteTypeOf(f),
      resolve |-> AnswerOf(fault, f, "resolve", "found"),
      mutate |-> AnswerOf(fault, f, "mutate", "ok"),
      comment |-> AnswerOf(fault, f, "comment", "ok"),
      fields |-> EmptyBody,
      posts |-> <<>>]]

\* the locals of apply_transcript_update at its start
InitFrame ==
  [pc |-> "find", artifact |-> None, body |-> EmptyBody, applied_state |-> None,
   applied_state_field |-> None, comment_posted |-> FALSE, outcome |-> None]

InitAnyOrder ==
  /\ \E transcript \in TextsOf(OrderPhrases, MaxBatchPhrases) :
       /\ payload = Some([workspace |-> "/workspace/123", transcript |-> transcript])
       /\ parsed_updates = parse_transcript(transcript)
       /\ workers = [i \in 1..Len(parse_transcript(transcript)) |-> InitFrame]
  /\ endpoint = "transcript"
  /\ pc = "workers"
  /\ idx = 0
  /\ update = None
  /\ artifact = None
  /\ body = EmptyBody
  /\ applied_state = None
  /\ applied_state_field = None
  /\ comment_posted = FALSE
  /\ applied = <<>>
  /\ skipped = <<>>
  /\ response = None
  /\ calls = <<>>
  /\ raised = <<>>
  /\ returned = <<>>
  /\ ParserOff
  /\ DetectOff
  /\ remote \in {RemoteWith(fault) : fault \in Faults}
  /\ finished = <<>>

\* worker i ends with a result or with a skip entry
WorkerEnds(i, outcome) ==
  /\ workers' = [workers EXCEPT ![i] = [InitFrame EXCEPT !.pc = "done", !.outcome = Some(outcome)]]
  /\ finished' = Append(finished, i)

\* apply_transcript_update of worker i raises exc; the except clauses of the
\* loop make the skip entry
WorkerFails(i, exc) ==
  WorkerEnds(i, [kind |-> "skipped",
                 entry |-> SkippedArtifactUpdateModel(
                             parsed_updates[i].formatted_id,
                             Val(BatchCatch(exc.kind, exc.message)),
                             parsed_updates[i].summary)])

\* the lookup has found the artifact: the field mutations are collected
WorkerCollects(i, found, st, fields) ==
  IF st.unsupported
  THEN WorkerFails(i, [kind |-> UnsupportedError,
                       message |-> UnsupportedMessage(found.formatted_id, found.type)])
  ELSE /\ workers' = [workers EXCEPT ![i] =
                        [@ EXCEPT !.artifact = Some(found),
                                  !.body = fields,
                                  !.applied_state = st.applied_state,
                                  !.applied_state_field = st.applied_state_field,
                                  !.pc = IF fields # EmptyBody THEN "mutate"
                                         ELSE AfterMutation(parsed_updates[i])]]
       /\ finished' = finished

\* worker i: apply_transcript_update from its start to the mutation call
WorkerFind(i) ==
  /\ workers[i].pc = "find"
  /\ IF remote[parsed_updates[i].formatted_id].resolve = "error"
     THEN WorkerFails(i, [kind |-> OtherError, message |-> TransportErrorText])
     ELSE IF remote[parsed_updates[i].formatted_id].resolve = "empty"
     THEN WorkerFails(i, [kind |-> NotFoundError,
                          message |-> NotFoundMessage(parsed_updates[i].formatted_id)])
     ELSE LET found == RallyArtifact(remote[parsed_updates[i].formatted_id].formatted_id,
                                     remote[parsed_updates[i].formatted_id].type,
                                     RefOf(parsed_updates[i].formatted_id))
          IN  WorkerCollects(i, found, StateStep(parsed_updates[i], found),
                             BlockedStep(StateStep(parsed_updates[i], found).body,
                                         parsed_updates[i], found))
  /\ UNCHANGED remote
  /\ UNCHANGED handlerVars
  /\ UNCHANGED parserVars
  /\ UNCHANGED detectVars

\* the fields of a work item after an accepted mutation call with fields
Written(old, fields) ==
  [f \in DOMAIN old |-> IF fields[f] # None THEN fields[f] ELSE old[f]]

\* worker i: the mutation call
WorkerMutate(i) ==
  /\ workers[i].pc = "mutate"
  /\ IF MutateException(remote[parsed_updates[i].formatted_id].mutate) # None
     THEN /\ WorkerFails(i, Val(MutateException(remote[parsed_updates[i].formatted_id].mutate)))
          /\ UNCHANGED remote
     ELSE /\ remote' = [remote EXCEPT ![parsed_updates[i].formatted_id].fields =
                                         Written(@, workers[i].body)]
          /\ workers' = [workers EXCEPT ![i].pc = AfterMutation(parsed_updates[i])]
          /\ finished' = finished
  /\ UNCHANGED handlerVars
  /\ UNCHANGED parserVars
  /\ UNCHANGED detectVars

\* worker i: _create_conversation_post with the summary
WorkerComment(i) ==
  /\ workers[i].pc = "comment"
  /\ IF CommentException(remote[parsed_updates[i].formatted_id].comment) # None
     THEN /\ WorkerFails(i, Val(CommentException(remote[parsed_updates[i].formatted_id].comment)))
          /\ UNCHANGED remote
     ELSE /\ remote' = [remote EXCEPT ![parsed_updates[i].formatted_id].posts =
                                         Append(@, parsed_updates[i].summary)]
          /\ workers' = [workers EXCEPT ![i].comment_posted = TRUE, ![i].pc = "return"]
          /\ finished' = finished
  /\ UNCHANGED handlerVars
  /\ UNCHANGED parserVars
  /\ UNCHANGED detectVars

\* worker i: apply_transcript_update returns its result
WorkerReturn(i) ==
  /\ workers[i].pc = "return"
  /\ WorkerEnds(i, [kind |-> "applied",
                    entry |-> FromDomain(ArtifactUpdateResult(
                                parsed_updates[i], Val(workers[i].artifact), workers[i].body,
                                workers[i].applied_state, workers[i].applied_state_field,
                                workers[i].comment_posted))])
  /\ UNCHANGED remote
  /\ UNCHANGED handlerVars
  /\ UNCHANGED parserVars
  /\ UNCHANGED detectVars

NextAnyOrder ==
  \/ \E i \in 1..Len(workers) : WorkerFind(i)
  \/ \E i \in 1..Len(workers) : WorkerMutate(i)
  \/ \E i \in 1..Len(workers) : WorkerComment(i)
  \/ \E i \in 1..Len(workers) : WorkerReturn(i)

SpecAnyOrder == InitAnyOrder /\ [][NextAnyOrder]_vars

\* ------------------------------------------------------------------------
\* Properties
\* ------------------------------------------------------------------------
IsBatch == endpoint = "transcript"

IsManual == endpoint = "manual"

BatchDone == IsBatch /\ pc = "done"

ManualDone == IsManual /\ pc = "done"

Resp == Val(response)

\* the formatted_id of each entry of a list
Ids(list) == [k \in 1..Len(list) |-> list[k].formatted_id]

\* the results of a list, each under the identifier of the update whose
\* apply returned it in place of the identifier it carries
ByIntent(list) == [n \in 1..Len(list) |-> [list[n] EXCEPT !.formatted_id = returned[n]]]

\* the positions of calls with the given op
CallsOf(op) == {k \in 1..Len(calls) : calls[k].op = op}

\* the call is a lookup
IsLookup(call) == call.op = "resolve"

\* the target of each call of a list
TargetsOf(list) == [k \in 1..Len(list) |-> list[k].target]

\* the identifiers looked up so far, in call order
ResolveTargets == TargetsOf(SelectSeq(calls, IsLookup))

\* C1: in the batch path a failure while an intent is processed becomes a
\* skip entry for that intent and the loop goes on: the skip entries are,
\* in order, the intents whose apply raised, every intent of a finished
\* batch has been looked up, in parser order, and the batch ends with the
\* 200 summary whatever the collaborator calls came to.
C1_NeverAbort ==
  IsBatch =>
    /\ Ids(skipped) = Ids(raised)
    /\ (pc = "done" /\ parsed_updates # <<>>) =>
          /\ Resp.status = 200
          /\ ResolveTargets = Ids(parsed_updates)

\* a finished batch whose first intent failed with an unexpected error and
\* whose later intent was applied
C1_Witness ==
  /\ BatchDone
  /\ Len(parsed_updates) >= 2
  /\ Len(raised) >= 1
  /\ raised[1].formatted_id = parsed_updates[1].formatted_id
  /\ raised[1].kind = OtherError
  /\ Len(applied) >= 1

\* parsed[p..], applied[a..] and skipped[s..]: the intents are, in order,
\* shared out one by one between the two lists, each entry under its
\* intent's identifier and carrying its summary
RECURSIVE IsMerge(_, _, _, _, _, _)
IsMerge(intents, appliedList, skippedList, p, a, s) ==
  IF p > Len(intents) THEN a > Len(appliedList) /\ s > Len(skippedList)
  ELSE \/ /\ a <= Len(appliedList)
          /\ appliedList[a].formatted_id = intents[p].formatted_id
          /\ appliedList[a].summary = intents[p].summary
          /\ IsMerge(intents, appliedList, skippedList, p + 1, a + 1, s)
       \/ /\ s <= Len(skippedList)
          /\ skippedList[s].formatted_id = intents[p].formatted_id
          /\ skippedList[s].summary = intents[p].summary
          /\ IsMerge(intents, appliedList, skippedList, p + 1, a, s + 1)

\* C2: at the end of a batch every parsed intent has produced exactly one
\* entry, in applied or in skipped and never in both; total_mentions is the number of
\* intents and the sum of applied_count and skipped_count; applied and
\* skipped keep the parser's order.
C2_OneEntryPerIntent ==
  (BatchDone /\ Resp.status = 200) =>
    /\ Resp.total_mentions = Len(parsed_updates)
    /\ Resp.applied_count = Len(Resp.applied)
    /\ Resp.skipped_count = Len(Resp.skipped)
    /\ Resp.total_mentions = Resp.applied_count + Resp.skipped_count
    /\ Len(Resp.applied) = Len(returned)
    /\ IsMerge(parsed_updates, ByIntent(Resp.applied), Resp.skipped, 1, 1, 1)
    /\ \A a \in 1..Len(Resp.applied), k \in 1..Len(Resp.skipped) :
         returned[a] # Resp.skipped[k].formatted_id

\* a finished batch of three intents, two applied and one skipped
C2_Witness ==
  /\ BatchDone
  /\ Resp.status = 200
  /\ Resp.total_mentions = 3
  /\ Resp.applied_count = 2
  /\ Resp.skipped_count = 1

\* the call before position k is an accepted mutation of the same artifact
AfterAcceptedMutation(k) ==
  /\ k > 1
  /\ calls[k - 1].op = "mutate"
  /\ calls[k - 1].outcome = "ok"
  /\ calls[k - 1].target = calls[k].target

\* the call before position k is the lookup that found the artifact
AfterLookup(k) ==
  /\ k > 1
  /\ calls[k - 1].op = "resolve"
  /\ calls[k - 1].outcome = "found"
  /\ RefOf(calls[k - 1].target) = calls[k].target

\* C3: the commentary post of an apply comes only after the mutation call of
\* that apply was accepted, or right after the lookup when no field was
\* collected; after a rejected or failed mutation call no commentary is
\* posted for that apply.
C3_CommentAfterMutation ==
  /\ \A k \in CallsOf("comment") : AfterAcceptedMutation(k) \/ AfterLookup(k)
  /\ \A k \in CallsOf("mutate") :
       (calls[k].outcome # "ok" /\ k < Len(calls)) => calls[k + 1].op = "resolve"
  /\ pc = "comment" =>
       \/ body = EmptyBody /\ calls[Len(calls)].op = "resolve"
       \/ /\ body # EmptyBody
          /\ calls[Len(calls)].op = "mutate"
          /\ calls[Len(calls)].outcome = "ok"

\* a finished request with an accepted mutation followed by its commentary
\* and a rejected mutation
C3_Witness ==
  /\ pc = "done"
  /\ \E k \in CallsOf("comment") : AfterAcceptedMutation(k)
  /\ \E k \in CallsOf("mutate") : calls[k].outcome = "rejected"

\* the field mutations an ApplyResult reports as applied
ReportedBody(result) ==
  [EmptyBody EXCEPT
     !.ScheduleState = IF result.applied_state_field = Some("ScheduleState")
                       THEN result.applied_state ELSE None,
     !.State = IF result.applied_state_field = Some("State")
               THEN result.applied_state ELSE None,
     !.Blocked = result.blocked,
     !.BlockedReason = result.blocked_reason]

\* the mutation calls issued for the artifact of identifier fid
MutationsOf(fid) == {k \in CallsOf("mutate") : calls[k].target = RefOf(fid)}

\* the fields a result reports are those of the one accepted mutation call
\* of its artifact, and a result that reports none has no mutation call
ReportedIsCommitted(result) ==
  IF ReportedBody(result) = EmptyBody
  THEN MutationsOf(result.formatted_id) = {}
  ELSE /\ Cardinality(MutationsOf(result.formatted_id)) = 1
       /\ \A k \in MutationsOf(result.formatted_id) :
            calls[k].outcome = "ok" /\ calls[k].body = ReportedBody(result)

\* the ApplyResults produced so far, each under the identifier of the
\* update it was produced for
Results ==
  IF IsManual /\ pc = "done" /\ Resp.status = 200 THEN ByIntent(<<Resp.result>>)
  ELSE ByIntent(applied)

\* C4: apply never partially commits. Every ApplyResult reports exactly the
\* fields of the single accepted mutation call of its artifact (all of them
\* or none), no artifact gets more than one mutation call, and an apply that
\* failed yields no ApplyResult: the batch has a skip entry and no applied
\* entry for it, the manual path an error response.
C4_NoPartialCommit ==
  /\ \A n \in 1..Len(Results) : ReportedIsCommitted(Results[n])
  /\ \A k \in CallsOf("mutate"), m \in CallsOf("mutate") :
       calls[k].target = calls[m].target => k = m
  /\ \A r \in 1..Len(raised) :
       /\ \A n \in 1..Len(Results) : Results[n].formatted_id # raised[r].formatted_id
       /\ IsBatch => \E k \in 1..Len(skipped) :
                        skipped[k].formatted_id = raised[r].formatted_id
       /\ ManualDone => Resp.status # 200

\* a finished request whose mutation call carried a state field and the
\* blocked fields together and was rejected
C4_Witness ==
  /\ pc = "done"
  /\ \E k \in CallsOf("mutate") :
       /\ calls[k].outcome = "rejected"
       /\ calls[k].body.Blocked # None
       /\ calls[k].body.State # None \/ calls[k].body.ScheduleState # None
  /\ Len(raised) >= 1

\* the update whose apply issued the lookup at position k of calls
IntentOfLookup(k) ==
  IF IsBatch THEN parsed_updates[Cardinality({m \in 1..k : calls[m].op = "resolve"})]
  ELSE cur

\* the lookups that found an artifact of a type without a state field for an
\* update that carries a state
UnsupportedLookups ==
  {k \in CallsOf("resolve") :
     /\ calls[k].outcome = "found"
     /\ calls[k].type \notin {"HierarchicalRequirement", "Defect", "Task"}
     /\ Truthy(IntentOfLookup(k).state)}

\* C5: when an update carries a state and the artifact's type has no state
\* field, apply raises RallyUnsupportedArtifactTypeError before any mutation
\* or commentary call for that artifact, and the batch has exactly one skip
\* entry for that identifier and no applied entry produced for it.
C5_UnsupportedTypeSkips ==
  \A k \in UnsupportedLookups :
    /\ k < Len(calls) => calls[k + 1].op = "resolve"
    /\ MutationsOf(calls[k].target) = {}
    /\ \A c \in CallsOf("comment") : calls[c].target # RefOf(calls[k].target)
    /\ Cardinality({r \in 1..Len(raised) :
                      /\ raised[r].formatted_id = calls[k].target
                      /\ raised[r].kind = UnsupportedError}) = 1
    /\ IsBatch =>
         /\ Cardinality({n \in 1..Len(skipped) :
                           skipped[n].formatted_id = calls[k].target}) = 1
         /\ \A n \in 1..Len(applied) : returned[n] # calls[k].target
    /\ ManualDone => Resp.status = 400

\* a finished batch in which a state update met a portfolio item and a later
\* intent was still applied
C5_Witness ==
  /\ BatchDone
  /\ \E k \in UnsupportedLookups : calls[k].type = "PortfolioItem/Feature"
  /\ Len(skipped) = 1
  /\ Len(applied) >= 1

\* the lookups that found an artifact of a type outside the blocked
\* allow-set for an update with blocked set
BlockedOutsideLookups ==
  {k \in CallsOf("resolve") :
     /\ calls[k].outcome = "found"
     /\ calls[k].type \notin {"HierarchicalRequirement", "Defect", "Task"}
     /\ IntentOfLookup(k).blocked # None}

\* the exceptions of class kind raised by the apply of identifier fid
RaisedFor(fid, kind) ==
  {r \in 1..Len(raised) : raised[r].formatted_id = fid /\ raised[r].kind = kind}

\* the ApplyResults produced for identifier fid
ResultsFor(fid) == {n \in 1..Len(Results) : Results[n].formatted_id = fid}

\* C6 as stated: on a type outside {HierarchicalRequirement, Defect, Task} an
\* update with blocked set still has its state mutation applied, reports
\* blocked unset and never fails on account of the type.
C6_Original ==
  \A k \in BlockedOutsideLookups :
    /\ RaisedFor(calls[k].target, UnsupportedError) = {}
    /\ \A n \in ResultsFor(calls[k].target) :
         /\ Results[n].blocked = None
         /\ Results[n].applied_state = IntentOfLookup(k).state

\* C6: on a type outside {HierarchicalRequirement, Defect, Task} an update
\* with blocked set never has its blocked fields sent, and no mutation call
\* is issued at all; without a state the apply does not fail on account of
\* the type and its result reports blocked, blocked_reason and the state
\* fields unset; with a state the apply fails with
\* RallyUnsupportedArtifactTypeError, no such type having a state field.
C6_BlockedDroppedOutsideTypes ==
  \A k \in BlockedOutsideLookups :
    /\ MutationsOf(calls[k].target) = {}
    /\ Truthy(IntentOfLookup(k).state) =>
         /\ Cardinality(RaisedFor(calls[k].target, UnsupportedError)) = 1
         /\ ResultsFor(calls[k].target) = {}
    /\ ~Truthy(IntentOfLookup(k).state) =>
         /\ RaisedFor(calls[k].target, UnsupportedError) = {}
         /\ \A n \in ResultsFor(calls[k].target) :
              /\ Results[n].blocked = None
              /\ Results[n].blocked_reason = None
              /\ Results[n].applied_state = None
              /\ Results[n].applied_state_field = None

\* a manual update with blocked = false and no state on a test case that
\* ended with a result
C6_Witness ==
  /\ ManualDone
  /\ Resp.status = 200
  /\ cur.blocked = Some(FALSE)
  /\ \E k \in BlockedOutsideLookups : calls[k].type = "TestCase"
  /\ Resp.result.blocked = None
  /\ Resp.result.comment_posted

\* the state field the claim names for a type
ExpectedStateField(type) ==
  IF type = "HierarchicalRequirement" THEN "ScheduleState" ELSE "State"

\* the state field the claim does not name for a type
OtherStateField(type) ==
  IF type = "HierarchicalRequirement" THEN "State" ELSE "ScheduleState"

\* the update that produced a result
IntentOfResult(result) ==
  IF IsBatch
  THEN parsed_updates[CHOOSE j \in 1..Len(parsed_updates) :
                        parsed_updates[j].formatted_id = result.formatted_id]
  ELSE cur

\* what C7 says of one result and the update that produced it
StateReported(result, intent) ==
  IF Truthy(intent.state)
  THEN /\ result.artifact_type \in {"HierarchicalRequirement", "Defect", "Task"}
       /\ result.applied_state_field = Some(ExpectedStateField(result.artifact_type))
       /\ result.applied_state = intent.state
       /\ MutationsOf(result.formatted_id) # {}
       /\ \A k \in MutationsOf(result.formatted_id) :
            /\ calls[k].type = result.artifact_type
            /\ calls[k].body[ExpectedStateField(result.artifact_type)] = intent.state
            /\ calls[k].body[OtherStateField(result.artifact_type)] = None
  ELSE /\ result.applied_state_field = None
       /\ result.applied_state = None
       /\ \A k \in MutationsOf(result.formatted_id) :
            calls[k].body.State = None /\ calls[k].body.ScheduleState = None

\* C7: a successful apply of an update with a state writes, and reports as
\* applied_state_field, ScheduleState for a HierarchicalRequirement and State
\* for a Defect or a Task, with applied_state the update's state; no other
\* type gets a state written; without a state applied_state_field and
\* applied_state are unset and no state field is written.
C7_StateFieldByType ==
  \A n \in 1..Len(Results) : StateReported(Results[n], IntentOfResult(Results[n]))

\* a finished batch that applied a state to a HierarchicalRequirement and to
\* a Task
C7_Witness ==
  /\ BatchDone
  /\ \E n \in 1..Len(applied) :
       /\ applied[n].artifact_type = "HierarchicalRequirement"
       /\ applied[n].applied_state_field = Some("ScheduleState")
  /\ \E n \in 1..Len(applied) :
       /\ applied[n].artifact_type = "Task"
       /\ applied[n].applied_state_field = Some("State")

\* x occurs in seq
InSeq(seq, x) == \E n \in 1..Len(seq) : seq[n] = x

\* the segments of a text: split, then each stripped
StripAll(raw) == [j \in 1..Len(raw) |-> Strip(raw[j])]

Segments(t) == StripAll(SplitSnippets(t))

\* the identifiers captured in each segment
IdsOfAll(segs) == [j \in 1..Len(segs) |-> FindAllIds(segs[j])]

\* the segments, given by their captured identifiers, that capture fid
Mentions(ids, fid) == {j \in 1..Len(ids) : InSeq(ids[j], fid)}

\* the last segment that captures fid
LastMention(ids, fid) ==
  CHOOSE j \in Mentions(ids, fid) : \A m \in Mentions(ids, fid) : m <= j

\* the update for fid whose fields f are those of one segment alone
UpdateOf(fid, f, segment) == TranscriptArtifactUpdate(fid, f[1], f[2], f[3], segment)

\* the update for fid computed from segment alone
UpdateFrom(fid, segment) == UpdateOf(fid, SnippetFields(segment), segment)

\* the list parse_transcript returned
Parsed == Val(parsed)

\* every intent of list is the update computed from the last of the
\* segments segs (with captured identifiers ids) that captures its identifier
AllFromLastMention(list, segs, ids) ==
  \A n \in 1..Len(list) :
    /\ Mentions(ids, list[n].formatted_id) # {}
    /\ list[n] = UpdateFrom(list[n].formatted_id,
                            segs[LastMention(ids, list[n].formatted_id)])

\* C8: last mention wins. The state, blocked, blocked_reason and summary of
\* every returned intent are those computed from the last segment that
\* captures its identifier, none of them carried over from an earlier one.
C8_LastMentionWins ==
  ppc = "returned" =>
    AllFromLastMention(Parsed, Segments(text), IdsOfAll(Segments(text)))

\* some intent of list has no field set although an earlier segment that
\* captures its identifier gave a blocked reason
SomeOverwritten(list, segs, ids) ==
  \E n \in 1..Len(list) :
    /\ list[n].state = None
    /\ list[n].blocked = None
    /\ list[n].blocked_reason = None
    /\ \E j \in Mentions(ids, list[n].formatted_id) :
         /\ j < LastMention(ids, list[n].formatted_id)
         /\ SnippetFields(segs[j])[3] # None

\* a returned intent whose identifier was first captured in a segment that
\* gave a blocked reason and last in a segment that gave no field at all
C8_Witness ==
  /\ ppc = "returned"
  /\ SomeOverwritten(Parsed, Segments(text), IdsOfAll(Segments(text)))

\* seq without the repetitions of its elements, first occurrences kept
RECURSIVE FirstOccurrences(_, _, _)
FirstOccurrences(seq, n, acc) ==
  IF n > Len(seq) THEN acc
  ELSE FirstOccurrences(seq, n + 1, IF InSeq(acc, seq[n]) THEN acc ELSE Append(acc, seq[n]))

\* list holds one intent per identifier of firsts, in that order
OneEach(list, firsts) ==
  /\ \A n \in 1..Len(list), m \in 1..Len(list) :
       list[n].formatted_id = list[m].formatted_id => n = m
  /\ Len(list) = Len(firsts)
  /\ \A n \in 1..Len(list) : list[n].formatted_id = firsts[n]

\* C9: parse_transcript returns one intent per identifier, in the order in
\* which the identifiers first appear in the text, also for an identifier
\* that a later segment overwrote.
C9_FirstAppearanceOrder ==
  ppc = "returned" => OneEach(Parsed, FirstOccurrences(FindAllIds(text), 1, <<>>))

\* the first identifier of list is captured again after the second one has
\* appeared, and its intent carries the later segment
FirstOverwrittenLater(list, segs, ids) ==
  /\ Len(list) >= 2
  /\ \E j \in Mentions(ids, list[2].formatted_id) :
       j < LastMention(ids, list[1].formatted_id)
  /\ \E j \in Mentions(ids, list[1].formatted_id) :
       /\ j < LastMention(ids, list[1].formatted_id)
       /\ segs[j] # segs[LastMention(ids, list[1].formatted_id)]
  /\ list[1].summary = segs[LastMention(ids, list[1].formatted_id)]

\* a returned list whose first identifier was captured again, and
\* overwritten, after the second identifier had appeared
C9_Witness ==
  /\ ppc = "returned"
  /\ FirstOverwrittenLater(Parsed, Segments(text), IdsOfAll(Segments(text)))

\* the identifier grammar of the interface: positions i..e of s hold 1 to 5
\* uppercase letters followed by 2 or more digits, word-bounded
IsIdentifierAt(s, i, e) ==
  /\ i = 1 \/ Ch(s, i - 1) \notin WordChars
  /\ e = Len(s) \/ Ch(s, e + 1) \notin WordChars
  /\ \E k \in 1..5 :
       /\ i + k + 1 <= e
       /\ \A j \in i..(i + k - 1) : Ch(s, j) \in UpperChars
       /\ \A j \in (i + k)..e : Ch(s, j) \in DigitChars

\* no segment of s names an identifier
NamesNoIdentifier(s) ==
  \A i \in 1..Len(s) :
    Ch(s, i) \in UpperChars => \A e \in i..Len(s) : ~IsIdentifierAt(s, i, e)

\* the request of the batch endpoint
Transcript == Val(payload).transcript

\* a finished batch request with a workspace whose text names no identifier
NoIdentifierBatch ==
  /\ BatchDone
  /\ Val(payload).workspace # ""
  /\ NamesNoIdentifier(Transcript)

\* C10 as stated: for every text without an identifier-matching segment the
\* parser returns the empty list and the batch path returns the all-zero
\* summary without any remote call.
C10_Original ==
  NoIdentifierBatch =>
    /\ parse_transcript(Transcript) = <<>>
    /\ Resp = TranscriptUpdateResponseModel(0, <<>>, <<>>)
    /\ calls = <<>>

\* C10: for every text without an identifier-matching segment the parser
\* returns the empty list and the batch path issues no remote call; it
\* returns the all-zero summary when the text is not blank, and rejects an
\* empty or whitespace-only text with status 400 before parsing.
C10_NoIdentifierNoCalls ==
  NoIdentifierBatch =>
    /\ parse_transcript(Transcript) = <<>>
    /\ calls = <<>>
    /\ parsed_updates = <<>>
    /\ IF Strip(Transcript) = ""
       THEN Resp.status = 400
       ELSE Resp = TranscriptUpdateResponseModel(0, <<>>, <<>>)

\* a finished batch request whose text has words, one of them close to an
\* identifier, and no identifier
C10_Witness ==
  /\ NoIdentifierBatch
  /\ Contains(Transcript, "TA5")
  /\ Resp.status = 200
  /\ Resp.total_mentions = 0

\* the request of a batch lacks a workspace or has an empty or
\* whitespace-only transcript
BatchRequestInvalid ==
  \/ Val(payload).workspace = ""
  \/ \A i \in 1..Len(Transcript) : Ch(Transcript, i) \in SpaceChars

\* a response is a full summary: status 200, the three counts and the two
\* itemized lists, the counts being those of the lists
IsFullSummary(r) ==
  /\ r.status = 200
  /\ DOMAIN r = {"status", "total_mentions", "applied_count", "skipped_count",
                 "applied", "skipped"}
  /\ r.applied_count = Len(r.applied)
  /\ r.skipped_count = Len(r.skipped)
  /\ r.total_mentions = r.applied_count + r.skipped_count

\* C11 as stated: every request on the batch path, an empty or
\* whitespace-only transcript included, ends with a full summary and never
\* with a failure.
C11_Original == BatchDone => IsFullSummary(Resp)

\* C11: every request on the batch path that has a workspace and a
\* transcript that is not empty or whitespace-only ends with a full summary
\* (the counts and the itemized applied and skipped lists), whatever the
\* remote calls came to; a request without a workspace or with an empty or
\* whitespace-only transcript is rejected with status 400 before any parsing
\* or remote call.
C11_SummaryUnlessInvalidRequest ==
  BatchDone =>
    IF BatchRequestInvalid
    THEN /\ Resp.status = 400
         /\ calls = <<>>
         /\ parsed_updates = <<>>
    ELSE /\ IsFullSummary(Resp)
         /\ Resp.applied = applied
         /\ Resp.skipped = skipped
         /\ Resp.total_mentions = Len(parsed_updates)

\* a finished batch of two intents, both failed, one of them with an
\* unexpected error, that ended with the full summary
C11_Witness ==
  /\ BatchDone
  /\ ~BatchRequestInvalid
  /\ IsFullSummary(Resp)
  /\ Resp.total_mentions = 2
  /\ Resp.skipped_count = 2
  /\ \E r \in 1..Len(raised) : raised[r].kind = OtherError

\* the loop body has run to its end for a snippet that names an identifier
BodyDone == dpc = "next" /\ matches # <<>>

\* the lowercased text t holds a blocked keyword
HasBlockedKeyword(t) == Contains(t, "blocked") \/ Contains(t, "blocker")

\* the lowercased text t holds a keyword of group g of the state table
HasKeywordOf(t, g) ==
  \E n \in 1..Len(STATE_KEYWORDS[g][1]) : Contains(t, STATE_KEYWORDS[g][1][n])

\* the lowercased text t holds no keyword of the state table
HasNoStateKeyword(t) == \A g \in 1..Len(STATE_KEYWORDS) : ~HasKeywordOf(t, g)

\* every identifier of ids has an intent in list, and every intent of list
\* is for an identifier of ids and carries segment as its summary
IntentsOfSegment(list, ids, segment) ==
  /\ \A m \in 1..Len(ids) : \E n \in 1..Len(list) : list[n].formatted_id = ids[m]
  /\ \A n \in 1..Len(list) : InSeq(ids, list[n].formatted_id) /\ list[n].summary = segment

\* C12: for a segment that names an identifier, holds a blocked keyword
\* ("blocked" or "blocker", in any case) and no keyword of the state table,
\* every identifier of the segment gets an intent, and every intent made
\* from the segment has blocked = true and state = "In-Progress".
C12_BlockedImpliesInProgress ==
  (BodyDone /\ HasBlockedKeyword(Lower(snippet)) /\ HasNoStateKeyword(Lower(snippet))) =>
    /\ IntentsOfSegment(updates, matches, snippet)
    /\ \A n \in 1..Len(updates) :
         /\ updates[n].blocked = Some(TRUE)
         /\ updates[n].state = Some("In-Progress")

\* a segment with two identifiers and the keyword "Blocker" alone, whose two
\* intents are blocked and in progress
C12_Witness ==
  /\ BodyDone
  /\ snippet = "US12 Blocker DE34"
  /\ Len(updates) = 2
  /\ \A n \in 1..Len(updates) :
       updates[n].blocked = Some(TRUE) /\ updates[n].state = Some("In-Progress")

\* the groups of the state table with a keyword in the lowercased text t
GroupsIn(t) == {g \in 1..Len(STATE_KEYWORDS) : HasKeywordOf(t, g)}

\* the canonical value of the first group of hits, in table order, or unset
CanonicalOfFirst(hits) ==
  IF hits = {} THEN None
  ELSE Some(STATE_KEYWORDS[CHOOSE g \in hits : \A h \in hits : g <= h][2])

\* _detect_state has returned and the derived-state rule has not run yet
StateDetected == dpc \in {"blocked", "derive"}

\* a keyword of a later group of the table occurs in t before every keyword
\* of the first group that t holds
LaterGroupOccursFirst(t) ==
  /\ Contains(t, "done")
  /\ Contains(t, "in progress")
  /\ \E i \in 1..Len(t) :
       /\ StartsAt(t, i, "done")
       /\ \A j \in 1..i : ~StartsAt(t, j, "in progress")

\* C13: state detection is priority-ordered. The detected state of a segment
\* is the canonical value of the first group of the state table, in declared
\* order, that has a keyword occurring in the lowercased segment, wherever
\* in the segment the keywords occur; with no keyword of any group the
\* detected state is unset.
C13_StatePriority ==
  StateDetected => state = CanonicalOfFirst(GroupsIn(Lower(snippet)))

\* a segment with "done" before "in progress" whose detected state is
\* In-Progress, the value of the first group
C13_Witness ==
  /\ StateDetected
  /\ LaterGroupOccursFirst(Lower(snippet))
  /\ state = Some("In-Progress")

\* the intent of a manual request, as the interface gives it: the trimmed
\* identifier, the trimmed state when one is given, blocked and
\* blocked_reason as they came, and the trimmed comment as summary
ManualIntent ==
  [formatted_id |-> Strip(Val(payload).formatted_id),
   state |-> IF Val(payload).state # None /\ Val(payload).state # Some("")
             THEN Some(Strip(Val(Val(payload).state))) ELSE None,
   blocked |-> Val(payload).blocked,
   blocked_reason |-> Val(payload).blocked_reason,
   summary |-> Strip(Val(payload).comment)]

\* the intent whose apply issued the lookup at position k of calls
IntentAt(k) == IF IsBatch THEN IntentOfLookup(k) ELSE ManualIntent

\* the position of the last call of the apply whose lookup is at position k:
\* the one before the next lookup
RECURSIVE ApplyEnd(_)
ApplyEnd(k) ==
  IF k < Len(calls) /\ calls[k + 1].op # "resolve" THEN ApplyEnd(k + 1) ELSE k

\* the calls of the apply whose lookup is at position k
ApplySegment(k) == SubSeq(calls, k, ApplyEnd(k))

\* the types with a state field and the blocked fields
RuledTypes == {"HierarchicalRequirement", "Defect", "Task"}

\* the field mutations the type rules give for an intent on a type
RuledBody(intent, type) ==
  [ScheduleState |-> IF Truthy(intent.state) /\ type = "HierarchicalRequirement"
                     THEN intent.state ELSE None,
   State |-> IF Truthy(intent.state) /\ type \in {"Defect", "Task"}
             THEN intent.state ELSE None,
   Blocked |-> IF type \in RuledTypes THEN intent.blocked ELSE None,
   BlockedReason |->
     IF type \notin RuledTypes \/ intent.blocked = None THEN None
     ELSE IF intent.blocked = Some(FALSE) THEN Some("")
     ELSE IF Truthy(intent.blocked_reason) THEN intent.blocked_reason
     ELSE Some(intent.summary)]

\* seg ends with the commentary call of the intent at position at, or
\* before it when the intent has no summary
CommentRuled(intent, seg, at) ==
  IF intent.summary # ""
  THEN /\ Len(seg) = at
       /\ seg[at] = Call("comment", RefOf(intent.formatted_id), "", EmptyBody,
                         intent.summary, seg[at].outcome)
  ELSE Len(seg) = at - 1

\* seg is seg[1], the lookup of the intent, followed by the mutation call
\* with the ruled fields on the type found and by the commentary call
MutationRuled(intent, seg, type) ==
  IF RuledBody(intent, type) # EmptyBody
  THEN /\ Len(seg) >= 2
       /\ seg[2] = Call("mutate", RefOf(intent.formatted_id), type,
                        RuledBody(intent, type), "", seg[2].outcome)
       /\ IF seg[2].outcome # "ok" THEN Len(seg) = 2
          ELSE CommentRuled(intent, seg, 3)
  ELSE CommentRuled(intent, seg, 2)

\* seg is the call sequence the interface rules give for the intent and
\* the answers of the remote service seen in seg: one lookup, nothing more
\* when it fails or the state is fatal on the type found, else the mutation
\* call and the commentary call
ApplyCallsAsRuled(intent, seg) ==
  /\ Len(seg) >= 1
  /\ seg[1].op = "resolve"
  /\ seg[1].target = intent.formatted_id
  /\ IF seg[1].outcome # "found" THEN Len(seg) = 1
     ELSE IF Truthy(intent.state) /\ seg[1].type \notin RuledTypes THEN Len(seg) = 1
     ELSE MutationRuled(intent, seg, seg[1].type)

\* the request of the manual path lacks a workspace, an identifier or a
\* comment, blank counting as missing
ManualRequestInvalid ==
  \/ Val(payload).workspace = ""
  \/ Strip(Val(payload).formatted_id) = ""
  \/ Strip(Val(payload).comment) = ""

\* C14: the manual path and the transcript path are equivalent at the
\* applier. In a finished request of either path the calls of every apply
\* are the sequence of resolve, mutate and comment calls that the intent
\* (for the manual path: identifier, state, blocked, blocked_reason and
\* summary = trimmed comment) and the answers of the remote service
\* determine, with the same type mapping and the same fatal-state and
\* dropped-blocked rules; the sequence does not depend on the path.
C14_ManualSameAsBatch ==
  pc = "done" =>
    /\ calls # <<>> => calls[1].op = "resolve"
    /\ \A k \in CallsOf("resolve") : ApplyCallsAsRuled(IntentAt(k), ApplySegment(k))
    /\ IsManual => Cardinality(CallsOf("resolve")) = (IF ManualRequestInvalid THEN 0 ELSE 1)

\* a finished manual request whose intent is the one the parser makes of
\* "US12 is done." and whose calls were the lookup, the state mutation and
\* the commentary
C14_Witness ==
  /\ ManualDone
  /\ Resp.status = 200
  /\ <<cur>> = parse_transcript("US12 is done.")
  /\ Len(calls) = 3
  /\ calls[2].op = "mutate"
  /\ calls[2].body.ScheduleState = Some("Completed")
  /\ calls[3].op = "comment"
  /\ calls[3].text = "US12 is done"

\* the position in calls of the lookup for identifier fid
LookupOf(fid) == CHOOSE k \in CallsOf("resolve") : calls[k].target = fid

\* the last call of the apply of identifier fid
LastCallOf(fid) == calls[ApplyEnd(LookupOf(fid))]

\* the apply of fid failed because the lookup found nothing
FailedNotFound(fid) == LastCallOf(fid).op = "resolve" /\ LastCallOf(fid).outcome = "empty"

\* the apply of fid failed because the remote service rejected the mutation
\* or the commentary with an error list
FailedRejected(fid) ==
  LastCallOf(fid).op \in {"mutate", "comment"} /\ LastCallOf(fid).outcome = "rejected"

\* the apply of fid failed because the type found has no state field
FailedUnsupported(fid) == LastCallOf(fid).op = "resolve" /\ LastCallOf(fid).outcome = "found"

\* skip entry n carries the identifier and the summary of its intent
SkipCarriesIntent(n) ==
  \E j \in 1..Len(parsed_updates) :
    /\ parsed_updates[j].formatted_id = skipped[n].formatted_id
    /\ parsed_updates[j].summary = skipped[n].summary

\* C15 as stated: the skip reason names the identifier for a not-found
\* identifier, is the first remote error text for a rejected mutation or
\* commentary, and is the error text behind "Unexpected error: " for any
\* other error.
C15_Original ==
  BatchDone =>
    \A n \in 1..Len(skipped) :
      /\ SkipCarriesIntent(n)
      /\ IF FailedNotFound(skipped[n].formatted_id)
         THEN Contains(skipped[n].reason, skipped[n].formatted_id)
         ELSE IF FailedRejected(skipped[n].formatted_id)
         THEN skipped[n].reason = RemoteErrorText
         ELSE skipped[n].reason = "Unexpected error: " \o raised[n].message

\* C15: the skip reason names the identifier for a not-found identifier, is
\* the first remote error text verbatim for a rejected mutation or
\* commentary, is the error's own text, naming identifier and type and not
\* wrapped, for a state on a type without a state field, and is the error
\* text behind "Unexpected error: " for any other error; in all cases the
\* skip entry carries the identifier and the summary of its intent.
C15_SkipReasons ==
  BatchDone =>
    \A n \in 1..Len(skipped) :
      /\ SkipCarriesIntent(n)
      /\ IF FailedNotFound(skipped[n].formatted_id)
         THEN Contains(skipped[n].reason, skipped[n].formatted_id)
         ELSE IF FailedRejected(skipped[n].formatted_id)
         THEN skipped[n].reason = RemoteErrorText
         ELSE IF FailedUnsupported(skipped[n].formatted_id)
         THEN /\ skipped[n].reason = raised[n].message
              /\ Contains(skipped[n].reason, skipped[n].formatted_id)
              /\ Contains(skipped[n].reason, LastCallOf(skipped[n].formatted_id).type)
         ELSE skipped[n].reason = "Unexpected error: " \o TransportErrorText

\* a finished batch of three intents, skipped for a not-found identifier,
\* for a rejected commentary and for a transport failure
C15_Witness ==
  /\ BatchDone
  /\ Len(skipped) = 3
  /\ \E n \in 1..3 : FailedNotFound(skipped[n].formatted_id)
  /\ \E n \in 1..3 : /\ FailedRejected(skipped[n].formatted_id)
                     /\ LastCallOf(skipped[n].formatted_id).op = "comment"
  /\ \E n \in 1..3 : skipped[n].reason = "Unexpected error: " \o TransportErrorText

\* the skip entry the loop makes of an exception of class kind for intent u
SkipOutcome(u, kind, message) ==
  [kind |-> "skipped",
   entry |-> SkippedArtifactUpdateModel(u.formatted_id, Val(BatchCatch(kind, message)),
                                        u.summary)]

\* the applied entry of intent u on the artifact found with the fields sent
AppliedOutcome(u, found, st, fields) ==
  [kind |-> "applied",
   entry |-> FromDomain(ArtifactUpdateResult(u, found, fields, st.applied_state,
                                             st.applied_state_field, u.summary # ""))]

\* one apply of the sequential loop once the mutation call is over, on the
\* work item r it has left
SeqComment(u, r, found, st, fields) ==
  IF u.summary = "" THEN [outcome |-> AppliedOutcome(u, found, st, fields), item |-> r]
  ELSE IF CommentException(r.comment) # None
  THEN [outcome |-> SkipOutcome(u, Val(CommentException(r.comment)).kind,
                                Val(CommentException(r.comment)).message),
        item |-> r]
  ELSE [outcome |-> AppliedOutcome(u, found, st, fields),
        item |-> [r EXCEPT !.posts = Append(@, u.summary)]]

\* one apply of the sequential loop from the mutation call on
SeqMutate(u, r, found, st, fields) ==
  IF st.unsupported
  THEN [outcome |-> SkipOutcome(u, UnsupportedError,
                                UnsupportedMessage(u.formatted_id, found.type)),
        item |-> r]
  ELSE IF fields = EmptyBody THEN SeqComment(u, r, found, st, fields)
  ELSE IF MutateException(r.mutate) # None
  THEN [outcome |-> SkipOutcome(u, Val(MutateException(r.mutate)).kind,
                                Val(MutateException(r.mutate)).message),
        item |-> r]
  ELSE SeqComment(u, [r EXCEPT !.fields = Written(@, fields)], found, st, fields)

\* one apply of the sequential loop on the artifact found
SeqFound(u, r, found) ==
  SeqMutate(u, r, found, StateStep(u, found),
            BlockedStep(StateStep(u, found).body, u, found))

\* one apply of the sequential loop for intent u on work item r: the entry
\* it ends with and the work item it leaves
SeqApply(u, r) ==
  IF r.resolve = "error"
  THEN [outcome |-> SkipOutcome(u, OtherError, TransportErrorText), item |-> r]
  ELSE IF r.resolve = "empty"
  THEN [outcome |-> SkipOutcome(u, NotFoundError, NotFoundMessage(u.formatted_id)),
        item |-> r]
  ELSE SeqFound(u, r, RallyArtifact(r.formatted_id, r.type, RefOf(u.formatted_id)))

\* the sequential loop from intent n on: the entries, by position, and the
\* remote service it leaves
RECURSIVE SeqLoop(_, _, _, _)
SeqLoop(intents, n, rem, outs) ==
  IF n > Len(intents) THEN [remote |-> rem, outcomes |-> outs]
  ELSE SeqLoop(intents, n + 1,
               [rem EXCEPT ![intents[n].formatted_id] =
                             SeqApply(intents[n], rem[intents[n].formatted_id]).item],
               Append(outs, SeqApply(intents[n], rem[intents[n].formatted_id]).outcome))

\* the remote service before the batch: nothing written, nothing posted
RemoteBefore ==
  [f \in DOMAIN remote |-> [remote[f] EXCEPT !.fields = EmptyBody, !.posts = <<>>]]

\* every worker has ended
WorkersDone == workers # <<>> /\ \A i \in 1..Len(workers) : workers[i].pc = "done"

\* the workers ended with the entries ref.outcomes and left the remote
\* service ref.remote
SameAs(ref) ==
  /\ remote = ref.remote
  /\ \A i \in 1..Len(workers) : workers[i].outcome = Some(ref.outcomes[i])

LastCall == calls[Len(calls)]

\* the lookup of the manual request found an artifact whose type has no
\* state field while the request carries a state
ManualUnsupported ==
  /\ LastCall.op = "resolve"
  /\ LastCall.outcome = "found"
  /\ LastCall.type \notin RuledTypes
  /\ Truthy(ManualIntent.state)

\* the status the manual path owes for the failure its last call shows, or
\* 200 when the apply did not fail
ManualStatusOwed ==
  IF LastCall.op = "resolve" /\ LastCall.outcome = "empty" THEN 404
  ELSE IF ManualUnsupported THEN 400
  ELSE IF LastCall.outcome \in {"rejected", "error"} THEN 502
  ELSE 200

\* C17: the manual path maps each apply failure to exactly one terminal
\* error and returns no result on failure: not-found gives 404,
\* RallyUnsupportedArtifactTypeError gives 400 (not 502, although it is a
\* subclass of RallyArtifactUpdateError), any other RallyArtifactUpdateError
\* gives 502 and every other error gives 502; a missing workspace, a missing
\* identifier or a blank comment gives 400 before any collaborator call.
C17_ManualErrorMapping ==
  ManualDone =>
    IF ManualRequestInvalid
    THEN Resp.status = 400 /\ calls = <<>> /\ raised = <<>>
    ELSE /\ calls # <<>>
         /\ Resp.status = ManualStatusOwed
         /\ Len(raised) = (IF Resp.status = 200 THEN 0 ELSE 1)
         /\ (Resp.status = 200) = ("result" \in DOMAIN Resp)
         /\ Resp.status # 200 =>
              /\ raised[1].kind = NotFoundError => Resp.status = 404
              /\ raised[1].kind = UnsupportedError => Resp.status = 400
              /\ raised[1].kind \in {UpdateError, OtherError} => Resp.status = 502
              /\ LastCall.outcome = "rejected" => Resp.detail = RemoteErrorText
              /\ LastCall.outcome = "error" =>
                   Resp.detail = "Unexpected error: " \o TransportErrorText

\* a finished manual request with a state for a portfolio item: status 400
\* after the lookup alone
C17_Witness ==
  /\ ManualDone
  /\ ~ManualRequestInvalid
  /\ ManualUnsupported
  /\ LastCall.type = "PortfolioItem/Feature"
  /\ Len(calls) = 1
  /\ Resp.status = 400

\* the lookups that found an artifact of a blocked-supporting type
SupportedLookups ==
  {k \in CallsOf("resolve") :
     calls[k].outcome = "found" /\ calls[k].type \in {"HierarchicalRequirement", "Defect", "Task"}}

\* the blocked fields the claim gives for an intent: <<Blocked, BlockedReason>>
BlockedFieldsFor(intent) ==
  IF intent.blocked = Some(TRUE)
  THEN <<Some(TRUE),
         IF intent.blocked_reason # None /\ intent.blocked_reason # Some("")
         THEN intent.blocked_reason ELSE Some(intent.summary)>>
  ELSE IF intent.blocked = Some(FALSE) THEN <<Some(FALSE), Some("")>>
  ELSE <<None, None>>

\* the blocked fields of the mutation call issued after the lookup at
\* position k, unset both when no mutation call was issued
BlockedFieldsSent(k) ==
  IF k < Len(calls) /\ calls[k + 1].op = "mutate"
  THEN <<calls[k + 1].body.Blocked, calls[k + 1].body.BlockedReason>>
  ELSE <<None, None>>

\* the apply whose lookup is at position k is past its mutation step
PastMutation(k) == k < Len(calls) \/ pc \in {"comment", "return", "done"}

\* C18: on a blocked-supporting type the mutation call carries Blocked = true
\* and BlockedReason = the intent's blocked_reason when that is non-empty,
\* else the intent's summary, for blocked = true; Blocked = false and an
\* empty BlockedReason for blocked = false; neither field for blocked unset;
\* and the ApplyResult reports as blocked and blocked_reason exactly the
\* values sent, unset when none were sent. Stated of the calls and results
\* of a finished request.
C18_BlockedFields ==
  pc = "done" =>
    /\ \A k \in SupportedLookups :
         PastMutation(k) => BlockedFieldsSent(k) = BlockedFieldsFor(IntentAt(k))
    /\ \A n \in 1..Len(Results) :
         Results[n].artifact_type \in {"HierarchicalRequirement", "Defect", "Task"} =>
           <<Results[n].blocked, Results[n].blocked_reason>> =
             BlockedFieldsSent(LookupOf(Results[n].formatted_id))

\* a finished manual request with blocked = true and an empty blocked_reason
\* on a defect, whose result reports the summary as the reason
C18_Witness ==
  /\ ManualDone
  /\ Resp.status = 200
  /\ ManualIntent.blocked = Some(TRUE)
  /\ ManualIntent.blocked_reason = Some("")
  /\ calls[1].type = "Defect"
  /\ calls[2].body.BlockedReason = Some("Manual update.")
  /\ Resp.result.blocked = Some(TRUE)
  /\ Resp.result.blocked_reason = Some("Manual update.")

\* the position of the lookup of the apply that issued the call at position
\* k: the last lookup before k
RECURSIVE OwnLookupOf(_)
OwnLookupOf(k) == IF calls[k - 1].op = "resolve" THEN k - 1 ELSE OwnLookupOf(k - 1)

\* the mutation call at position k comes right after the lookup of its
\* apply, on the artifact found, with every collected field in it
MutationInProtocol(k) ==
  /\ k > 1
  /\ calls[k - 1].op = "resolve"
  /\ calls[k - 1].outcome = "found"
  /\ calls[k].target = RefOf(calls[k - 1].target)
  /\ calls[k].type = calls[k - 1].type
  /\ calls[k].body # EmptyBody
  /\ calls[k].body = RuledBody(IntentAt(k - 1), calls[k - 1].type)

\* the commentary call at position k is the last call of its apply, after
\* the lookup and the accepted mutation call if there is one
CommentInProtocol(k) ==
  /\ k > 1
  /\ \/ calls[k - 1].op = "resolve" /\ calls[k - 1].outcome = "found"
     \/ calls[k - 1].op = "mutate" /\ calls[k - 1].outcome = "ok"
  /\ k < Len(calls) => calls[k + 1].op = "resolve"
  /\ calls[k].target = RefOf(calls[OwnLookupOf(k)].target)
  /\ calls[k].text = IntentAt(OwnLookupOf(k)).summary

\* the lookup at position k is the first call of the apply of the next
\* intent, for that intent's identifier
LookupInProtocol(k) ==
  /\ IsManual => k = 1
  /\ calls[k].target = IntentAt(k).formatted_id
  /\ (k < Len(calls) /\ calls[k + 1].op = "mutate") =>
       (calls[k].outcome = "found" /\ RuledBody(IntentAt(k), calls[k].type) # EmptyBody)

\* the number of applies started so far
AppliesStarted ==
  IF IsBatch THEN (IF pc = "done" THEN Len(parsed_updates)
                   ELSE IF pc = "find" THEN idx - 1 ELSE idx)
  ELSE IF pc \in {"idle", "find"} \/ ManualRequestInvalid THEN 0 ELSE 1

\* C19: the call protocol of an apply. Every apply issues exactly one lookup
\* for its identifier before anything else, the artifact never being taken
\* from an earlier apply, then at most one mutation call that carries all
\* the collected fields together (none when no field was collected), then
\* at most one commentary call; a batch of n intents issues exactly n
\* lookups. The calls are those of a finished request; the count of lookups
\* is also that of the applies started at any moment.
C19_CallProtocol ==
  endpoint # "none" =>
    /\ Cardinality(CallsOf("resolve")) = AppliesStarted
    /\ calls # <<>> => calls[1].op = "resolve"
    /\ pc = "done" =>
         /\ \A k \in CallsOf("resolve") : LookupInProtocol(k)
         /\ \A k \in CallsOf("mutate") : MutationInProtocol(k)
         /\ \A k \in CallsOf("comment") : CommentInProtocol(k)

\* a finished batch of three intents with three lookups, one of them
\* followed by a mutation call with a state field and the blocked fields and
\* by the commentary call
C19_Witness ==
  /\ BatchDone
  /\ Len(parsed_updates) = 3
  /\ Cardinality(CallsOf("resolve")) = 3
  /\ \E k \in CallsOf("mutate") :
       /\ calls[k].body.Blocked = Some(TRUE)
       /\ calls[k].body.State # None
       /\ k < Len(calls)
       /\ calls[k + 1].op = "comment"

\* _detect_blocked has returned for a snippet that names an identifier
BlockedDetected == dpc \in {"derive", "put", "next"} /\ matches # <<>>

\* the whole word "blocked" stands at position i of the lowercased text t
WholeWordBlockedAt(t, i) ==
  /\ i + 6 <= Len(t)
  /\ SubSeq(t, i, i + 6) = "blocked"
  /\ i = 1 \/ Ch(t, i - 1) \notin WordChars
  /\ i + 7 > Len(t) \/ Ch(t, i + 7) \notin WordChars

\* the connectors the interface names
ConnectorWords == {"on", "by", "because of", "due to"}

\* connector c stands at position p of t
ConnectorAt(t, p, c) == p + Len(c) - 1 <= Len(t) /\ SubSeq(t, p, p + Len(c) - 1) = c

\* positions a..(p - 1) of t are whitespace, at least one
SpacesBetween(t, a, p) == p > a /\ \A j \in a..(p - 1) : Ch(t, j) \in SpaceChars

\* some whole word "blocked" of t is followed by whitespace and a connector
ConnectorAfterBlocked(t) ==
  \E i \in 1..Len(t) :
    /\ WholeWordBlockedAt(t, i)
    /\ \E p \in 1..Len(t), c \in ConnectorWords :
         SpacesBetween(t, i + 7, p) /\ ConnectorAt(t, p, c)

\* C20 as stated: in a segment with a blocked keyword blocked is true, and
\* blocked_reason is set only when the word "blocked" is followed by one of
\* the connectors; without a connector it stays unset.
C20_Original ==
  (BlockedDetected /\ HasBlockedKeyword(Lower(snippet))) =>
    /\ blocked = Some(TRUE)
    /\ ~ConnectorAfterBlocked(Lower(snippet)) => blocked_reason = None

\* the position of the first whole word "blocked" of t, or 0
FirstWholeWordBlocked(t) ==
  IF \E i \in 1..Len(t) : WholeWordBlockedAt(t, i)
  THEN CHOOSE i \in 1..Len(t) :
         WholeWordBlockedAt(t, i) /\ \A j \in 1..(i - 1) : ~WholeWordBlockedAt(t, j)
  ELSE 0

\* the text of t from position a to its end, trimmed
TrimmedFrom(t, a) == Strip(SubSeq(t, a, Len(t)))

\* where the reason starts in t when the text after "blocked" starts at
\* position a: after a connector that follows whitespace and is followed by
\* more text, else at a
ReasonFrom(t, a) ==
  IF \E p \in a..Len(t), c \in ConnectorWords :
       SpacesBetween(t, a, p) /\ ConnectorAt(t, p, c) /\ p + Len(c) <= Len(t)
  THEN CHOOSE q \in a..(Len(t) + 1) :
         \E p \in a..Len(t), c \in ConnectorWords :
           SpacesBetween(t, a, p) /\ ConnectorAt(t, p, c) /\ q = p + Len(c) /\ q <= Len(t)
  ELSE a

\* the reason the segment with lowercased text t gives, i being the position
\* of its first whole word "blocked" or 0
ReasonOf(t, i) ==
  IF i = 0 \/ i + 7 > Len(t) THEN None
  ELSE Some(TrimmedFrom(t, ReasonFrom(t, i + 7)))

\* C20: in a segment with a blocked keyword blocked is true, and
\* blocked_reason is set exactly when the whole word "blocked" occurs in the
\* lowercased segment with text after it. It is then the trimmed text after
\* the first such "blocked" up to the end of the segment, less a leading
\* connector ("on", "by", "because of", "due to") that follows whitespace and
\* is itself followed by text; no connector is needed. With "blocker" alone,
\* or "blocked" at the very end of the segment, blocked_reason stays unset
\* while blocked is true.
C20_ReasonAfterBlocked ==
  (BlockedDetected /\ HasBlockedKeyword(Lower(snippet))) =>
    /\ blocked = Some(TRUE)
    /\ blocked_reason = ReasonOf(Lower(snippet), FirstWholeWordBlocked(Lower(snippet)))
    /\ dpc = "next" => \A n \in 1..Len(updates) : updates[n].blocked_reason = blocked_reason

\* a segment in which "blocked" is followed by no connector, and whose
\* intent has the text after "blocked" as its reason
C20_Witness ==
  /\ dpc = "next"
  /\ snippet = "US12 blocked db"
  /\ ~ConnectorAfterBlocked(Lower(snippet))
  /\ blocked = Some(TRUE)
  /\ blocked_reason = Some("db")
  /\ Len(updates) = 1
  /\ updates[1].blocked_reason = Some("db")

\* ------------------------------------------------------------------------
\* C21
\* ------------------------------------------------------------------------
\* the remote service accepted a field mutation for identifier fid
MutationPersistedFor(fid) == \E k \in MutationsOf(fid) : calls[k].outcome = "ok"

\* C21: atomicity seen from the batch result. An identifier reported in
\* skipped has had no field mutation accepted by the remote service in this
\* batch, also when the commentary post fails after the mutation call
\* succeeded.
C21_SkippedNothingPersisted ==
  BatchDone => \A n \in 1..Len(skipped) : ~MutationPersistedFor(skipped[n].formatted_id)

\* ------------------------------------------------------------------------
\* C22
\* ------------------------------------------------------------------------
\* intent u is one the parser can make: blocked is true or unset, the
\* summary is not empty and a blocked intent carries a state
ParserShaped(u) ==
  /\ u.blocked \in {None, Some(TRUE)}
  /\ u.summary # ""
  /\ u.blocked = Some(TRUE) => Truthy(u.state)

\* the apply of the lookup at position k ended as a skip with
\* RallyUnsupportedArtifactTypeError, without mutation and without result
SkippedAsUnsupported(k) ==
  /\ Cardinality(RaisedFor(calls[k].target, UnsupportedError)) = 1
  /\ MutationsOf(calls[k].target) = {}
  /\ ResultsFor(calls[k].target) = {}
  /\ \E n \in 1..Len(skipped) :
       /\ skipped[n].formatted_id = calls[k].target
       /\ skipped[n].reason = UnsupportedMessage(calls[k].target, calls[k].type)

\* C22: every intent produced by parse_transcript has blocked true or unset,
\* never false, and a non-empty summary, and blocked = true implies that the
\* state is set; so in the batch path every blocked intent that resolves to a
\* type outside {HierarchicalRequirement, Defect, Task} ends as a skip with
\* RallyUnsupportedArtifactTypeError, and a mutation with Blocked = false
\* comes from the manual path only.
C22_ParserNeverUnblocks ==
  /\ IsBatch => \A j \in 1..Len(parsed_updates) : ParserShaped(parsed_updates[j])
  /\ BatchDone => \A k \in BlockedOutsideLookups : SkippedAsUnsupported(k)
  /\ \A k \in CallsOf("mutate") : calls[k].body.Blocked = Some(FALSE) => IsManual

\* a finished batch of two intents: the one for "TA56 blocker" got its state
\* from the derived rule, met a test case and was skipped as unsupported,
\* the other was applied
C22_Witness ==
  /\ BatchDone
  /\ Len(parsed_updates) = 2
  /\ \E j \in 1..2 :
       /\ parsed_updates[j].blocked = Some(TRUE)
       /\ parsed_updates[j].state = Some("In-Progress")
       /\ parsed_updates[j].summary = "TA56 blocker"
  /\ \E k \in BlockedOutsideLookups :
       calls[k].target = "TA56" /\ calls[k].type = "TestCase"
  /\ Ids(skipped) = <<"TA56">>
  /\ Len(applied) = 1

\* ------------------------------------------------------------------------
\* C23
\* ------------------------------------------------------------------------
\* the identifiers of a list, as a set
IdSet(list) == {list[n].formatted_id : n \in 1..Len(list)}

\* C23: every entry of a batch's applied list carries the identifier of the
\* intent that produced it, whatever identifier the record of the lookup
\* reports: the applied identifiers and the skipped identifiers are disjoint
\* and together are the parsed identifiers.
C23_AppliedCarriesIntentId ==
  BatchDone =>
    /\ \A n \in 1..Len(applied) : applied[n].formatted_id = returned[n]
    /\ IdSet(applied) \cap IdSet(skipped) = {}
    /\ IdSet(applied) \cup IdSet(skipped) = IdSet(parsed_updates)

====
